---- MODULE Spec2Model ----
(***************************************************************************)
(* A model of core/wopiutils.py of the WOPI server: the lock codec, the    *)
(* lock comparison, the Microsoft Office lock-file naming rule, the lock   *)
(* retrieval with its foreign-lock probes, and the smart-unlock policy.    *)
(*                                                                         *)
(* Python strings and byte strings are sequences of integers (code points  *)
(* or byte values); Python's None is the one-element sequence <<-1>>,      *)
(* which is no string.  A call's outcome is a record: a returned value or  *)
(* the class of the exception that left the function.                      *)
(***************************************************************************)
EXTENDS Integers, Sequences, FiniteSets, TLC

VARIABLES
    \* ---- lock codec (encodeLock / _decodeLock)
    lock,          \* the raw lock handed to encodeLock
    storedlock,    \* the payload kept by the storage
    enclock,       \* the outcome of encodeLock
    declock,       \* the outcome of _decodeLock
    cpc,           \* position of the codec scenario
    \* ---- lock comparison (compareWopiLocks)
    inLock1,       \* the first lock compared
    inLock2,       \* the second lock compared
    cfgStrictcheck, \* the configured wopilockstrictcheck, None when not set
    compared,      \* the outcome of compareWopiLocks
    \* ---- Microsoft Office lock-file name (getMicrosoftOfficeLockName)
    msFilename,    \* the file name handed to getMicrosoftOfficeLockName
    msLockName,    \* the name returned, None before the call
    \* ---- lock retrieval (retrieveWopiLock) and the storage it probes
    acctok,        \* the access token's fields: filename, appname
    detectCfg,     \* the configured detectexternallocks, None when not set
    overridefn,    \* the overridefn argument, None when not given
    msSentinel,    \* storage: whether the Microsoft Office lock file exists
    loSentinel,    \* storage: the bytes of the LibreOffice lock file, None when absent
    stLock,        \* storage: the lock held on the file, NoLock when none
    stXattr,       \* storage: the file's iop.wopi.lastwritetime attribute, None when absent
    stContent,     \* storage: the bytes of the file
    rpc,           \* the statement retrieveWopiLock is at
    lolock,        \* retrieveWopiLock's local variable lolock
    seen,          \* what each storage call of retrieveWopiLock answered
    calls,         \* the storage calls retrieveWopiLock issued, in order
    retrieved,     \* the outcome of retrieveWopiLock
    \* ---- smart unlock (forceSmartUnlock)
    smartCfg,      \* the configured wopismartunlock, None when not set
    expirationCfg, \* the configured wopilockexpiration, in seconds
    holderApp,     \* the app name of the lock's holder
    clock,         \* the clock when forceSmartUnlock is called, in ticks
    smartSeen,     \* the storage calls made, what st.getxattr answered, the clock read last
    forced,        \* the outcome of forceSmartUnlock
    \* ---- conflict responses (makeConflictResponse)
    conflictArgs,  \* the arguments of the call
    conflictResp,  \* the outcome of makeConflictResponse
    \* ---- access tokens (generateAccessToken)
    tokArgs,       \* the arguments of the call
    tokEnv,        \* the file in the storage, the app endpoints, the validity, the clock
    tokSeen,       \* what st.statx answered
    issued,        \* the outcome of generateAccessToken
    \* ---- recovery of a failed save (storeForRecovery)
    recArgs,       \* the arguments of the call
    recDir,        \* whether the recovery directory is there
    recFile,       \* the local file written: its path and its bytes
    recSeen,       \* what the local file system answered
    recovered,     \* the outcome of storeForRecovery: how it ended and what it logged
    \* ---- a save (storeWopiFile)
    saveArgs,      \* the arguments of the call, the token's endpoint and userid
    spc,           \* the position of the save
    saveSeen,      \* what storage answered to writefile and to setxattr, the clock read
    saveCalls,     \* the storage calls of the save, in order
    stored,        \* the outcome of storeWopiFile
    \* ---- a concurrent request that takes the lock
    lpc            \* the position of that request

codecVars == <<lock, storedlock, enclock, declock, cpc>>

compareVars == <<inLock1, inLock2, cfgStrictcheck, compared>>

nameVars == <<msFilename, msLockName>>

tokenVars == <<acctok>>

storageVars == <<msSentinel, loSentinel, stLock, stXattr, stContent>>

retrieveVars == <<detectCfg, overridefn, rpc, lolock, seen, calls, retrieved>>

smartVars == <<smartCfg, expirationCfg, holderApp, clock, smartSeen, forced>>

conflictVars == <<conflictArgs, conflictResp>>

issueVars == <<tokArgs, tokEnv, tokSeen, issued>>

recoveryVars == <<recArgs, recDir, recFile, recSeen, recovered>>

saveVars == <<saveArgs, spc, saveSeen, saveCalls, stored>>

lockerVars == <<lpc>>

vars == <<codecVars, compareVars, nameVars, tokenVars, storageVars, retrieveVars, smartVars,
          conflictVars, issueVars, recoveryVars, saveVars, lockerVars>>

\* what a step of one component leaves alone: the other components
exceptCodec ==
    <<compareVars, nameVars, tokenVars, storageVars, retrieveVars, smartVars, conflictVars, issueVars,
      recoveryVars, saveVars, lockerVars>>

exceptCompare ==
    <<codecVars, nameVars, tokenVars, storageVars, retrieveVars, smartVars, conflictVars, issueVars,
      recoveryVars, saveVars, lockerVars>>

exceptName ==
    <<codecVars, compareVars, tokenVars, storageVars, retrieveVars, smartVars, conflictVars, issueVars,
      recoveryVars, saveVars, lockerVars>>

exceptRetrieve ==
    <<codecVars, compareVars, nameVars, tokenVars, smartVars, conflictVars, issueVars,
      recoveryVars, saveVars, lockerVars>>

exceptConflict ==
    <<codecVars, compareVars, nameVars, tokenVars, storageVars, retrieveVars, smartVars, issueVars,
      recoveryVars, saveVars, lockerVars>>

exceptIssue ==
    <<codecVars, compareVars, nameVars, tokenVars, storageVars, retrieveVars, smartVars,
      conflictVars, recoveryVars, saveVars, lockerVars>>

exceptRecovery ==
    <<codecVars, compareVars, nameVars, tokenVars, storageVars, retrieveVars, smartVars,
      conflictVars, issueVars, saveVars, lockerVars>>

exceptSmart ==
    <<codecVars, compareVars, nameVars, tokenVars, storageVars, retrieveVars, conflictVars, issueVars,
      recoveryVars, saveVars, lockerVars>>

-----------------------------------------------------------------------------
(* Python values *)

None == <<-1>>

Truthy(s) == s # None /\ s # <<>>

Ret(v) == [kind |-> "return", val |-> v, exc |-> "none"]

Raise(e) == [kind |-> "raise", val |-> None, exc |-> e]

NoCall == [kind |-> "nocall", val |-> None, exc |-> "none"]

\* str.find(sub) == 0, for a sub that is not empty
StartsWith(s, sub) == Len(s) >= Len(sub) /\ SubSeq(s, 1, Len(sub)) = sub

\* s[n:]
SliceFrom(s, n) == IF n >= Len(s) THEN <<>> ELSE SubSeq(s, n + 1, Len(s))

\* sub in s
Contains(s, sub) ==
    \E i \in 0..(Len(s) - Len(sub)) : SubSeq(s, i + 1, i + Len(sub)) = sub

-----------------------------------------------------------------------------
(* str.encode() and bytes.decode(): UTF-8, strict *)

IsCont(b) == b >= 128 /\ b <= 191

Cont(cp, shift) == 128 + ((cp \div shift) % 64)

EncodeCodePoint(cp) ==
    IF cp < 128 THEN <<cp>>
    ELSE IF cp < 2048 THEN <<192 + (cp \div 64), Cont(cp, 1)>>
    ELSE IF cp < 65536 THEN <<224 + (cp \div 4096), Cont(cp, 64), Cont(cp, 1)>>
    ELSE <<240 + (cp \div 262144), Cont(cp, 4096), Cont(cp, 64), Cont(cp, 1)>>

IsSurrogate(cp) == cp >= 55296 /\ cp <= 57343

RECURSIVE UTF8EncodeFrom(_, _)
UTF8EncodeFrom(s, i) ==
    IF i > Len(s) THEN <<>>
    ELSE EncodeCodePoint(s[i]) \o UTF8EncodeFrom(s, i + 1)

\* str.encode(): the bytes, or UnicodeEncodeError on a lone surrogate
UTF8Encode(s) ==
    IF \E i \in 1..Len(s) : IsSurrogate(s[i])
    THEN Raise("UnicodeEncodeError")
    ELSE Ret(UTF8EncodeFrom(s, 1))

\* the number of bytes of the sequence a lead byte opens, 0 for no lead byte
SeqLen(b) ==
    IF b < 128 THEN 1
    ELSE IF b >= 194 /\ b <= 223 THEN 2
    ELSE IF b >= 224 /\ b <= 239 THEN 3
    ELSE IF b >= 240 /\ b <= 244 THEN 4
    ELSE 0

\* the second byte's range excludes overlong forms, surrogates and > U+10FFFF
SecondOk(b0, b1) ==
    IF b0 = 224 THEN b1 >= 160 /\ b1 <= 191
    ELSE IF b0 = 237 THEN b1 >= 128 /\ b1 <= 159
    ELSE IF b0 = 240 THEN b1 >= 144 /\ b1 <= 191
    ELSE IF b0 = 244 THEN b1 >= 128 /\ b1 <= 143
    ELSE IsCont(b1)

WellFormedAt(b, i) ==
    LET n == SeqLen(b[i]) IN
    /\ n > 0
    /\ i + n - 1 <= Len(b)
    /\ n >= 2 => SecondOk(b[i], b[i + 1])
    /\ n >= 3 => IsCont(b[i + 2])
    /\ n >= 4 => IsCont(b[i + 3])

CodePointAt(b, i) ==
    LET n == SeqLen(b[i]) IN
    IF n = 1 THEN b[i]
    ELSE IF n = 2 THEN (b[i] - 192) * 64 + (b[i + 1] - 128)
    ELSE IF n = 3 THEN (b[i] - 224) * 4096 + (b[i + 1] - 128) * 64 + (b[i + 2] - 128)
    ELSE (b[i] - 240) * 262144 + (b[i + 1] - 128) * 4096
         + (b[i + 2] - 128) * 64 + (b[i + 3] - 128)

RECURSIVE UTF8DecodeFrom(_, _, _)
UTF8DecodeFrom(b, i, acc) ==
    IF i > Len(b) THEN Ret(acc)
    ELSE IF ~WellFormedAt(b, i) THEN Raise("UnicodeDecodeError")
    ELSE UTF8DecodeFrom(b, i + SeqLen(b[i]), Append(acc, CodePointAt(b, i)))

\* bytes.decode(): the string, or UnicodeDecodeError
UTF8Decode(b) == UTF8DecodeFrom(b, 1, <<>>)

-----------------------------------------------------------------------------
(* base64.b64encode and base64.b64decode (validate=False) *)

B64Pad == <<61>>

\* the character of a 6-bit value: A-Z a-z 0-9 + /
B64Char(v) ==
    IF v < 26 THEN 65 + v
    ELSE IF v < 52 THEN 97 + (v - 26)
    ELSE IF v < 62 THEN 48 + (v - 52)
    ELSE IF v = 62 THEN 43
    ELSE 47

\* the 6-bit value of a character, 64 for a character outside the alphabet
B64Val(c) ==
    IF c >= 65 /\ c <= 90 THEN c - 65
    ELSE IF c >= 97 /\ c <= 122 THEN c - 97 + 26
    ELSE IF c >= 48 /\ c <= 57 THEN c - 48 + 52
    ELSE IF c = 43 THEN 62
    ELSE IF c = 47 THEN 63
    ELSE 64

RECURSIVE b64encodeFrom(_, _)
b64encodeFrom(b, i) ==
    LET left == Len(b) - i + 1 IN
    IF left <= 0 THEN <<>>
    ELSE IF left = 1 THEN
        <<B64Char(b[i] \div 4), B64Char((b[i] % 4) * 16)>> \o B64Pad \o B64Pad
    ELSE IF left = 2 THEN
        <<B64Char(b[i] \div 4),
          B64Char((b[i] % 4) * 16 + (b[i + 1] \div 16)),
          B64Char((b[i + 1] % 16) * 4)>> \o B64Pad
    ELSE
        <<B64Char(b[i] \div 4),
          B64Char((b[i] % 4) * 16 + (b[i + 1] \div 16)),
          B64Char((b[i + 1] % 16) * 4 + (b[i + 2] \div 64)),
          B64Char(b[i + 2] % 64)>> \o b64encodeFrom(b, i + 3)

b64encode(b) == b64encodeFrom(b, 1)

\* binascii.a2b_base64, not strict: characters outside the alphabet are
\* skipped, a pad ends the input once it completes a quad, and what is left
\* of an unfinished quad is binascii.Error
RECURSIVE a2b_base64(_, _, _, _, _, _)
a2b_base64(a, i, quad_pos, leftchar, pads, out) ==
    IF i > Len(a) THEN
        IF quad_pos # 0 THEN Raise("binascii.Error") ELSE Ret(out)
    ELSE IF <<a[i]>> = B64Pad THEN
        IF quad_pos >= 2 /\ quad_pos + pads + 1 >= 4 THEN Ret(out)
        ELSE a2b_base64(a, i + 1, quad_pos, leftchar,
                        IF quad_pos >= 2 THEN pads + 1 ELSE pads, out)
    ELSE IF B64Val(a[i]) >= 64 THEN
        a2b_base64(a, i + 1, quad_pos, leftchar, pads, out)
    ELSE
        LET c == B64Val(a[i]) IN
        IF quad_pos = 0 THEN a2b_base64(a, i + 1, 1, c, 0, out)
        ELSE IF quad_pos = 1 THEN
            a2b_base64(a, i + 1, 2, c % 16, 0,
                       Append(out, (leftchar * 4 + (c \div 16)) % 256))
        ELSE IF quad_pos = 2 THEN
            a2b_base64(a, i + 1, 3, c % 4, 0,
                       Append(out, (leftchar * 16 + (c \div 4)) % 256))
        ELSE
            a2b_base64(a, i + 1, 0, 0, 0,
                       Append(out, (leftchar * 64 + c) % 256))

b64decode(a) == a2b_base64(a, 1, 0, 0, 0, <<>>)

-----------------------------------------------------------------------------
(* json.loads, on the JSON the locks use: objects, arrays, strings with the *)
(* one-character escapes, integers, true, false, null and whitespace.       *)
(* (Fractions, exponents and NaN/Infinity are not read; no text of the      *)
(* model uses them.)  A JSON value is a record of its Python type,   *)
(* its text, its number and its items.                                      *)

J(ty, s, n, items) == [ty |-> ty, s |-> s, n |-> n, items |-> items]

JNull == J("null", <<>>, 0, <<>>)

JBool(b) == J("bool", <<>>, IF b THEN 1 ELSE 0, <<>>)

JNum(n) == J("num", <<>>, n, <<>>)

JStr(s) == J("str", s, 0, <<>>)

JList(items) == J("list", <<>>, 0, items)

\* a dict's items are its [k, v] pairs in the order read; the last one of a key wins
JDict(items) == J("dict", <<>>, 0, items)

Parsed(v, pos) == [ok |-> TRUE, val |-> v, pos |-> pos]

NotParsed == [ok |-> FALSE, val |-> JNull, pos |-> 0]

\* s[i:i+1], -1 past the end
CharAt(s, i) == IF i >= 1 /\ i <= Len(s) THEN s[i] ELSE -1

MatchAt(s, i, lit) == i + Len(lit) - 1 <= Len(s) /\ SubSeq(s, i, i + Len(lit) - 1) = lit

IsWs(c) == c \in {32, 9, 10, 13}

RECURSIVE SkipWs(_, _)
SkipWs(s, i) == IF IsWs(CharAt(s, i)) THEN SkipWs(s, i + 1) ELSE i

\* the character a backslash escape stands for, -1 for none
Unescape(c) ==
    IF c \in {34, 92, 47} THEN c
    ELSE IF c = 98 THEN 8
    ELSE IF c = 102 THEN 12
    ELSE IF c = 110 THEN 10
    ELSE IF c = 114 THEN 13
    ELSE IF c = 116 THEN 9
    ELSE -1

\* the value of a hexadecimal digit, -1 for none
HexVal(c) ==
    IF c >= 48 /\ c <= 57 THEN c - 48
    ELSE IF c >= 97 /\ c <= 102 THEN c - 87
    ELSE IF c >= 65 /\ c <= 70 THEN c - 55
    ELSE -1

\* _decode_uXXXX: the number of the four hexadecimal digits at i, -1 for none
DecodeU(s, i) ==
    IF \E k \in 0..3 : HexVal(CharAt(s, i + k)) = -1 THEN -1
    ELSE HexVal(s[i]) * 4096 + HexVal(s[i + 1]) * 256 + HexVal(s[i + 2]) * 16 + HexVal(s[i + 3])

Escaped(n, ch) == [n |-> n, ch |-> ch]

\* the character of a \uXXXX escape of number uni, low being the number of
\* the \uXXXX that follows it, -1 for none: a high surrogate and a low one
\* are one character
UnicodeEscape(uni, low) ==
    IF uni = -1 THEN Escaped(0, 0)
    ELSE IF uni >= 55296 /\ uni <= 56319 /\ low >= 56320 /\ low <= 57343
    THEN Escaped(12, 65536 + (uni - 55296) * 1024 + (low - 56320))
    ELSE Escaped(6, uni)

\* the character of a one-letter escape, esc being what Unescape gives
LetterEscape(esc) == IF esc = -1 THEN Escaped(0, 0) ELSE Escaped(2, esc)

\* one escape of py_scanstring, the backslash at i: the number of characters
\* it takes and the character it stands for; n is 0 for an invalid escape
EscapeStep(s, i) ==
    IF CharAt(s, i + 1) = 117
    THEN UnicodeEscape(DecodeU(s, i + 2),
                       IF MatchAt(s, i + 6, <<92, 117>>) THEN DecodeU(s, i + 8) ELSE -1)
    ELSE LetterEscape(Unescape(CharAt(s, i + 1)))

\* the least of a set of places, none for the empty set
FirstOf(stops, none) ==
    IF stops = {} THEN none ELSE CHOOSE j \in stops : \A k \in stops : j <= k

\* where the run of plain characters that begins at i ends: the place of
\* the first quote, backslash or control character, past the end for none
ChunkEnd(s, i) ==
    FirstOf({j \in i..Len(s) : s[j] = 34 \/ s[j] = 92 \/ s[j] < 32}, Len(s) + 1)

RECURSIVE ScanString(_, _, _)

\* the string goes on after an escape
ScanOn(s, i, acc, step) ==
    IF step.n = 0 THEN NotParsed
    ELSE ScanString(s, i + step.n, Append(acc, step.ch))

\* the run of plain characters from i to j - 1 is taken, then what ends it
\* is looked at: the closing quote, an escape, or what a string cannot hold
ScanChunk(s, i, acc, j) ==
    IF CharAt(s, j) = 34 THEN Parsed(JStr(acc \o SubSeq(s, i, j - 1)), j + 1)
    ELSE IF CharAt(s, j) = 92 THEN ScanOn(s, j, acc \o SubSeq(s, i, j - 1), EscapeStep(s, j))
    ELSE NotParsed

\* py_scanstring, strict: i is the place after the opening quote
ScanString(s, i, acc) == ScanChunk(s, i, acc, ChunkEnd(s, i))

IsDigit(c) == c >= 48 /\ c <= 57

RECURSIVE ScanDigits(_, _, _)
ScanDigits(s, i, acc) ==
    IF IsDigit(CharAt(s, i)) THEN ScanDigits(s, i + 1, acc * 10 + (s[i] - 48))
    ELSE [val |-> acc, pos |-> i]

\* NUMBER_RE: -?(0|[1-9][0-9]*)
ScanNumber(s, i) ==
    LET neg == CharAt(s, i) = 45
        j == IF neg THEN i + 1 ELSE i
    IN IF CharAt(s, j) = 48 THEN Parsed(JNum(0), j + 1)
       ELSE IF IsDigit(CharAt(s, j)) THEN
           LET d == ScanDigits(s, j, 0) IN
           Parsed(JNum(IF neg THEN 0 - d.val ELSE d.val), d.pos)
       ELSE NotParsed

RECURSIVE ScanValue(_, _), ArrayItems(_, _, _), ObjectItems(_, _, _)

\* JSONArray: i is the place after '['
ScanArray(s, i) ==
    LET j == SkipWs(s, i) IN
    IF CharAt(s, j) = 93 THEN Parsed(JList(<<>>), j + 1) ELSE ArrayItems(s, j, <<>>)

\* JSONObject: i is the place after '{'
ScanObject(s, i) ==
    LET j == SkipWs(s, i) IN
    IF CharAt(s, j) = 125 THEN Parsed(JDict(<<>>), j + 1)
    ELSE IF CharAt(s, j) = 34 THEN ObjectItems(s, j + 1, <<>>)
    ELSE NotParsed

\* scan_once
ScanValue(s, i) ==
    LET c == CharAt(s, i) IN
    IF c = 34 THEN ScanString(s, i + 1, <<>>)
    ELSE IF c = 123 THEN ScanObject(s, i + 1)
    ELSE IF c = 91 THEN ScanArray(s, i + 1)
    ELSE IF MatchAt(s, i, <<110, 117, 108, 108>>) THEN Parsed(JNull, i + 4)
    ELSE IF MatchAt(s, i, <<116, 114, 117, 101>>) THEN Parsed(JBool(TRUE), i + 4)
    ELSE IF MatchAt(s, i, <<102, 97, 108, 115, 101>>) THEN Parsed(JBool(FALSE), i + 5)
    ELSE ScanNumber(s, i)

ArrayItems(s, i, acc) ==
    LET v == ScanValue(s, i) IN
    IF ~v.ok THEN NotParsed
    ELSE LET j == SkipWs(s, v.pos)
             c == CharAt(s, j)
         IN IF c = 93 THEN Parsed(JList(Append(acc, v.val)), j + 1)
            ELSE IF c = 44 THEN ArrayItems(s, SkipWs(s, j + 1), Append(acc, v.val))
            ELSE NotParsed

\* i is the place after the opening quote of a key
ObjectItems(s, i, acc) ==
    LET key == ScanString(s, i, <<>>) IN
    IF ~key.ok THEN NotParsed
    ELSE LET j == SkipWs(s, key.pos) IN
         IF CharAt(s, j) # 58 THEN NotParsed
         ELSE LET v == ScanValue(s, SkipWs(s, j + 1)) IN
              IF ~v.ok THEN NotParsed
              ELSE LET m == SkipWs(s, v.pos)
                       c == CharAt(s, m)
                       all == Append(acc, [k |-> key.val.s, v |-> v.val])
                   IN IF c = 125 THEN Parsed(JDict(all), m + 1)
                      ELSE IF c = 44 /\ CharAt(s, SkipWs(s, m + 1)) = 34
                          THEN ObjectItems(s, SkipWs(s, m + 1) + 1, all)
                      ELSE NotParsed

JRet(v) == [kind |-> "return", val |-> v, exc |-> "none"]

JRaise(e) == [kind |-> "raise", val |-> JNull, exc |-> e]

\* json.loads(s): TypeError for None, ValueError (JSONDecodeError) for a text
\* that is no JSON value or has more after the value
json_loads(s) ==
    IF s = None THEN JRaise("TypeError")
    ELSE LET v == ScanValue(s, SkipWs(s, 1)) IN
         IF v.ok /\ SkipWs(s, v.pos) = Len(s) + 1 THEN JRet(v.val)
         ELSE JRaise("ValueError")

DictKeys(d) == {d.items[i].k : i \in 1..Len(d.items)}

DictGet(d, key) ==
    LET last == CHOOSE i \in 1..Len(d.items) :
                    /\ d.items[i].k = key
                    /\ \A j \in (i + 1)..Len(d.items) : d.items[j].k # key
    IN d.items[last].v

\* Python's == on two JSON values
RECURSIVE PyEq(_, _)
PyEq(a, b) ==
    IF a.ty \in {"num", "bool"} /\ b.ty \in {"num", "bool"} THEN a.n = b.n
    ELSE IF a.ty # b.ty THEN FALSE
    ELSE IF a.ty = "null" THEN TRUE
    ELSE IF a.ty = "str" THEN a.s = b.s
    ELSE IF a.ty = "list" THEN
        /\ Len(a.items) = Len(b.items)
        /\ \A i \in 1..Len(a.items) : PyEq(a.items[i], b.items[i])
    ELSE
        /\ DictKeys(a) = DictKeys(b)
        /\ \A key \in DictKeys(a) : PyEq(DictGet(a, key), DictGet(b, key))

\* Python's == of a JSON value and a raw lock (a string or None)
PyEqRaw(a, raw) ==
    IF raw = None THEN a.ty = "null" ELSE a.ty = "str" /\ a.s = raw

KeyS == <<83>>

Bool(b) == IF b THEN "True" ELSE "False"

\* 'S' in v: a key of a dict, an item of a list, a part of a string;
\* TypeError for a number, a boolean or None
InS(v) ==
    IF v.ty = "dict" THEN Bool(KeyS \in DictKeys(v))
    ELSE IF v.ty = "list" THEN Bool(\E i \in 1..Len(v.items) : PyEq(v.items[i], JStr(KeyS)))
    ELSE IF v.ty = "str" THEN Bool(Contains(v.s, KeyS))
    ELSE "TypeError"

\* str.upper(), on ASCII
\* json.dumps: a digit of base 16, in lower case
HexDigit(n) == IF n < 10 THEN 48 + n ELSE 87 + n

\* '\uXXXX'
EscapeU(n) ==
    <<92, 117, HexDigit(n \div 4096), HexDigit((n \div 256) % 16),
      HexDigit((n \div 16) % 16), HexDigit(n % 16)>>

\* py_encode_basestring_ascii for one character
EscapeChar(c) ==
    IF c = 34 THEN <<92, 34>>
    ELSE IF c = 92 THEN <<92, 92>>
    ELSE IF c = 10 THEN <<92, 110>>
    ELSE IF c = 13 THEN <<92, 114>>
    ELSE IF c = 9 THEN <<92, 116>>
    ELSE IF c = 12 THEN <<92, 102>>
    ELSE IF c = 8 THEN <<92, 98>>
    ELSE IF c >= 32 /\ c <= 126 THEN <<c>>
    ELSE IF c < 65536 THEN EscapeU(c)
    ELSE EscapeU(55296 + ((c - 65536) \div 1024)) \o EscapeU(56320 + ((c - 65536) % 1024))

\* the characters from lo to hi, each one escaped, by halves
RECURSIVE EscapeFrom(_, _, _)
EscapeFrom(s, lo, hi) ==
    IF lo > hi THEN <<>>
    ELSE IF lo = hi THEN EscapeChar(s[lo])
    ELSE EscapeFrom(s, lo, (lo + hi) \div 2) \o EscapeFrom(s, (lo + hi) \div 2 + 1, hi)

\* a string between quotes
DumpStr(s) == <<34>> \o EscapeFrom(s, 1, Len(s)) \o <<34>>

\* int.__repr__ of a number that is not negative
RECURSIVE DumpNat(_)
DumpNat(n) == IF n < 10 THEN <<48 + n>> ELSE DumpNat(n \div 10) \o <<48 + (n % 10)>>

RECURSIVE json_dumps(_), DumpItems(_, _, _), DumpPairs(_, _, _)

\* the items of a list from lo to hi, ', ' between them, by halves
DumpItems(items, lo, hi) ==
    IF lo > hi THEN <<>>
    ELSE IF lo = hi THEN json_dumps(items[lo])
    ELSE DumpItems(items, lo, (lo + hi) \div 2) \o <<44, 32>>
             \o DumpItems(items, (lo + hi) \div 2 + 1, hi)

\* the items of a dict from lo to hi, ': ' after the key, by halves
DumpPairs(items, lo, hi) ==
    IF lo > hi THEN <<>>
    ELSE IF lo = hi THEN DumpStr(items[lo].k) \o <<58, 32>> \o json_dumps(items[lo].v)
    ELSE DumpPairs(items, lo, (lo + hi) \div 2) \o <<44, 32>>
             \o DumpPairs(items, (lo + hi) \div 2 + 1, hi)

\* json.dumps(v), with its defaults
json_dumps(v) ==
    IF v.ty = "null" THEN <<110, 117, 108, 108>>
    ELSE IF v.ty = "bool" THEN (IF v.n = 1 THEN <<116, 114, 117, 101>> ELSE <<102, 97, 108, 115, 101>>)
    ELSE IF v.ty = "num" THEN (IF v.n < 0 THEN <<45>> \o DumpNat(0 - v.n) ELSE DumpNat(v.n))
    ELSE IF v.ty = "str" THEN DumpStr(v.s)
    ELSE IF v.ty = "list" THEN <<91>> \o DumpItems(v.items, 1, Len(v.items)) \o <<93>>
    ELSE <<123>> \o DumpPairs(v.items, 1, Len(v.items)) \o <<125>>

Upper(s) == [i \in 1..Len(s) |-> IF s[i] >= 97 /\ s[i] <= 122 THEN s[i] - 32 ELSE s[i]]

\* srv.config.get(section, option, fallback=...): an option that is not set is None
ConfigGet(option, fallback) == IF option = None THEN fallback ELSE option

StrTRUE == <<84, 82, 85, 69>>

StrFALSE == <<70, 65, 76, 83, 69>>

StrTrue == <<84, 114, 117, 101>>

StrFalse == <<70, 97, 108, 115, 101>>

-----------------------------------------------------------------------------
(* The lock codec *)

\* common.WEBDAV_LOCK_PREFIX: 'opaquelocktoken:797356a8-0500-4ceb-a8a0-c94c8cde7eba'
WEBDAV_LOCK_PREFIX ==
    <<
      111, 112, 97, 113, 117, 101, 108, 111, 99, 107, 116, 111, 107,
      101, 110, 58, 55, 57, 55, 51, 53, 54, 97, 56, 45, 48,
      53, 48, 48, 45, 52, 99, 101, 98, 45, 97, 56, 97, 48,
      45, 99, 57, 52, 99, 56, 99, 100, 101, 55, 101, 98, 97
    >>

Space == <<32>>

\* a payload without the separator: what encodeLock would store had it
\* forgotten the ' ' between the marker and the value
encodeLockNoSeparator(l) ==
    IF Truthy(l) THEN
        LET raw == UTF8Encode(l) IN
        IF raw.kind = "raise" THEN raw
        ELSE Ret(WEBDAV_LOCK_PREFIX \o b64encode(raw.val))
    ELSE Ret(None)

\* encodeLock(lock): the marker, a space, the base64 of the lock's bytes;
\* None for no lock
encodeLock(l) ==
    IF Truthy(l) THEN
        LET raw == UTF8Encode(l) IN
        IF raw.kind = "raise" THEN raw
        ELSE LET text == UTF8Decode(b64encode(raw.val)) IN
             IF text.kind = "raise" THEN text
             ELSE Ret(WEBDAV_LOCK_PREFIX \o Space \o text.val)
    ELSE Ret(None)

\* _decodeLock(storedlock): binascii.Error becomes IOError, a payload that
\* does not start with the marker is IOError, anything else the calls raise
\* leaves the function as it is
_decodeLock(s) ==
    IF Truthy(s) /\ StartsWith(s, WEBDAV_LOCK_PREFIX) THEN
        LET raw == UTF8Encode(SliceFrom(s, Len(WEBDAV_LOCK_PREFIX) + 1)) IN
        IF raw.kind = "raise" THEN raw
        ELSE LET bin == b64decode(raw.val) IN
             IF bin.kind = "raise" THEN Raise("IOError")
             ELSE UTF8Decode(bin.val)
    ELSE Raise("IOError")

-----------------------------------------------------------------------------
(* The lock comparison *)

Compared(v, json) == [val |-> v, json |-> json]

\* the handler of the inner try (lines 278-283): lock2 is not a JSON
\* dictionary.  A TypeError raised here reaches the outer handler; with no
\* 'S' in l1 the handler ends without a return statement
compareInnerExcept(l1, lock2) ==
    IF InS(l1) = "TypeError" THEN "TypeError"
    ELSE IF InS(l1) = "True" THEN
        IF l1.ty # "dict" THEN "TypeError"
        ELSE Bool(PyEqRaw(DictGet(l1, KeyS), lock2))
    ELSE "None"

\* the body of the inner try (lines 271-277): "except" when TypeError or
\* ValueError is raised in it
compareInnerTry(l1, lock2) ==
    LET p2 == json_loads(lock2) IN
    IF p2.kind = "raise" THEN "except"
    ELSE IF InS(l1) = "TypeError" THEN "except"
    ELSE IF InS(l1) = "False" THEN "False"
    ELSE IF InS(p2.val) = "TypeError" THEN "except"
    ELSE IF InS(p2.val) = "False" THEN "False"
    ELSE IF l1.ty # "dict" \/ p2.val.ty # "dict" THEN "except"
    ELSE Bool(PyEq(DictGet(l1, KeyS), DictGet(p2.val, KeyS)))

\* the strict check left out: the fallback runs whatever the configuration
compareWopiLocksNeverStrict(lock1, lock2, strictcheck) ==
    IF lock1 = lock2 THEN Compared("True", FALSE)
    ELSE LET p1 == json_loads(lock1) IN
         IF p1.kind = "raise" THEN Compared("False", TRUE)
         ELSE LET r == IF compareInnerTry(p1.val, lock2) # "except"
                       THEN compareInnerTry(p1.val, lock2)
                       ELSE compareInnerExcept(p1.val, lock2)
              IN Compared(IF r = "TypeError" THEN "False" ELSE r, TRUE)

\* the raw lock2 parsed too: the comparison made symmetric
compareWopiLocksSymmetric(lock1, lock2, strictcheck) ==
    IF lock1 = lock2 THEN Compared("True", FALSE)
    ELSE IF Upper(ConfigGet(strictcheck, StrFalse)) = StrTRUE THEN Compared("False", FALSE)
    ELSE LET p1 == json_loads(lock1)
             p2 == json_loads(lock2)
             s1 == IF p1.kind = "return" /\ p1.val.ty = "dict" /\ KeyS \in DictKeys(p1.val)
                   THEN DictGet(p1.val, KeyS) ELSE IF lock1 = None THEN JNull ELSE JStr(lock1)
             s2 == IF p2.kind = "return" /\ p2.val.ty = "dict" /\ KeyS \in DictKeys(p2.val)
                   THEN DictGet(p2.val, KeyS) ELSE IF lock2 = None THEN JNull ELSE JStr(lock2)
         IN Compared(Bool(PyEq(s1, s2)), TRUE)

\* compareWopiLocks(lock1, lock2) under the configured wopilockstrictcheck:
\* the value returned ("True", "False", or "None" when the function ends
\* without a return statement) and whether json.loads was called
compareWopiLocks(lock1, lock2, strictcheck) ==
    IF lock1 = lock2 THEN Compared("True", FALSE)
    ELSE IF Upper(ConfigGet(strictcheck, StrFalse)) = StrTRUE THEN Compared("False", FALSE)
    ELSE LET p1 == json_loads(lock1) IN
         IF p1.kind = "raise" THEN Compared("False", TRUE)
         ELSE LET r == IF compareInnerTry(p1.val, lock2) # "except"
                       THEN compareInnerTry(p1.val, lock2)
                       ELSE compareInnerExcept(p1.val, lock2)
              IN Compared(IF r = "TypeError" THEN "False" ELSE r, TRUE)

-----------------------------------------------------------------------------
(* os.path (posixpath) and the lock-file names *)

Sep == <<47>>

Dot == <<46>>

\* str.rfind(c) of a one-character c, counted from 1: 0 when c is not in s
RFind(s, c) ==
    IF \E i \in 1..Len(s) : <<s[i]>> = c
    THEN CHOOSE i \in 1..Len(s) : <<s[i]>> = c /\ \A j \in (i + 1)..Len(s) : <<s[j]>> # c
    ELSE 0

\* str.rstrip('/')
RECURSIVE RStripSep(_)
RStripSep(s) ==
    IF Len(s) > 0 /\ <<s[Len(s)]>> = Sep THEN RStripSep(SubSeq(s, 1, Len(s) - 1)) ELSE s

\* os.path.basename
basename(path) == SliceFrom(path, RFind(path, Sep))

\* os.path.dirname: the head up to the last '/', without its trailing
\* slashes unless it is made of slashes only
dirname(path) ==
    LET head == SubSeq(path, 1, RFind(path, Sep)) IN
    IF \A i \in 1..Len(head) : <<head[i]>> = Sep THEN head ELSE RStripSep(head)

\* os.path.splitext(path)[1]: from the last dot of the last component, if
\* a character that is no dot precedes it in that component
splitext1(path) ==
    LET sepIndex == RFind(path, Sep)
        dotIndex == RFind(path, Dot)
    IN IF /\ dotIndex > sepIndex
          /\ \E k \in (sepIndex + 1)..(dotIndex - 1) : <<path[k]>> # Dot
       THEN SubSeq(path, dotIndex, Len(path))
       ELSE <<>>

\* '.docx'
ExtDocx == <<46, 100, 111, 99, 120>>

\* '~$'
MsLockMark == <<126, 36>>

\* getLibreOfficeLockName(filename)
getLibreOfficeLockName(filename) ==
    dirname(filename) \o Sep \o <<46, 126, 108, 111, 99, 107, 46>> \o basename(filename) \o <<35>>

\* the rule with its second threshold one too low: two characters are
\* dropped from a 7-character name too
getMicrosoftOfficeLockNameOffByOne(filename) ==
    IF splitext1(filename) # ExtDocx \/ Len(basename(filename)) <= 6 + 1 + 4
    THEN dirname(filename) \o Sep \o MsLockMark \o basename(filename)
    ELSE IF Len(basename(filename)) >= 7 + 1 + 4
    THEN dirname(filename) \o Sep \o MsLockMark \o SliceFrom(basename(filename), 2)
    ELSE dirname(filename) \o Sep \o MsLockMark \o SliceFrom(basename(filename), 1)

\* getMicrosoftOfficeLockName(filename)
getMicrosoftOfficeLockName(filename) ==
    IF splitext1(filename) # ExtDocx \/ Len(basename(filename)) <= 6 + 1 + 4
    THEN dirname(filename) \o Sep \o MsLockMark \o basename(filename)
    ELSE IF Len(basename(filename)) >= 8 + 1 + 4
    THEN dirname(filename) \o Sep \o MsLockMark \o SliceFrom(basename(filename), 2)
    ELSE dirname(filename) \o Sep \o MsLockMark \o SliceFrom(basename(filename), 1)

-----------------------------------------------------------------------------
(* retrieveWopiLock: its results and what the storage calls answer *)

\* 'External'
External == <<69, 120, 116, 101, 114, 110, 97, 108>>

\* 'Microsoft Office for Desktop'
HolderMsOffice == <<77, 105, 99, 114, 111, 115, 111, 102, 116, 32, 79, 102, 102, 105, 99, 101, 32, 102, 111, 114, 32, 68, 101, 115, 107, 116, 111, 112>>

\* 'LibreOffice for Desktop'
HolderLibreOffice == <<76, 105, 98, 114, 101, 79, 102, 102, 105, 99, 101, 32, 102, 111, 114, 32, 68, 101, 115, 107, 116, 111, 112>>

\* 'Another app or user'
HolderAnother == <<65, 110, 111, 116, 104, 101, 114, 32, 97, 112, 112, 32, 111, 114, 32, 117, 115, 101, 114>>

\* 'WOPIServer'
Signature == <<87, 79, 80, 73, 83, 101, 114, 118, 101, 114>>

\* a returned pair (lock, holder)
RetPair(a, b) == [kind |-> "return", val |-> <<a, b>>, exc |-> "none"]

RaisePair(e) == [kind |-> "raise", val |-> <<None, None>>, exc |-> e]

NoCallPair == [kind |-> "nocall", val |-> <<None, None>>, exc |-> "none"]

\* the lock content of the storage: the payload and the holder's app name
LockContent(id, app) == [lock_id |-> id, app_name |-> app]

NoLock == LockContent(None, None)

\* the local variable lolock: None, the IOError object the reader yielded,
\* the bytes read, or the decoded text
LoNone == [is |-> "None", val |-> None]

LoError == [is |-> "IOError", val |-> None]

LoText(t) == [is |-> "str", val |-> t]

\* Python's truth value of lolock: an exception object is true, a string is
\* true unless empty
LoTruthy(l) == l.is = "IOError" \/ (l.is = "str" /\ l.val # <<>>)

\* srv.nonofficetypes: '.md', '.zmd', '.txt'
NonOfficeTypes == {<<46, 109, 100>>, <<46, 122, 109, 100>>, <<46, 116, 120, 116>>}

\* checkext and the file's extension not in srv.nonofficetypes (lines 193-195)
DetectsExternalLocks(cfg, filename) ==
    /\ Upper(ConfigGet(cfg, StrTrue)) = StrTRUE
    /\ splitext1(filename) \notin NonOfficeTypes

\* lines 241-252: the lock content is decoded; IOError is caught and
\* reported as an external lock, any other exception leaves the function
afterGetlock(content) ==
    LET dec == _decodeLock(content.lock_id) IN
    IF dec.kind = "return" THEN RetPair(dec.val, content.app_name)
    ELSE IF dec.exc = "IOError" THEN RetPair(External, HolderAnother)
    ELSE RaisePair(dec.exc)

-----------------------------------------------------------------------------
(* forceSmartUnlock.  Time is counted in ticks, TicksPerSec to the second;  *)
(* time.time() is the clock in ticks, int() of it the whole seconds.         *)

TicksPerSec == 2

\* 'iop.wopi.lastwritetime'
LASTSAVETIMEKEY == <<105, 111, 112, 46, 119, 111, 112, 105, 46, 108, 97, 115, 116, 119, 114, 105, 116, 101, 116, 105, 109, 101>>

\* the superscript two: a digit to str.isdigit, no digit to int()
SuperTwo == 178

\* str.isdigit: every character is a digit, and there is one at least
isdigit(s) == Len(s) > 0 /\ \A i \in 1..Len(s) : IsDigit(s[i]) \/ s[i] = SuperTwo

\* int() of a string that passed isdigit: its value, or ValueError
int(s) ==
    IF \A i \in 1..Len(s) : IsDigit(s[i])
    THEN [ok |-> TRUE, n |-> ScanDigits(s, 1, 0).val]
    ELSE [ok |-> FALSE, n |-> 0]

\* the outcome of forceSmartUnlock and whether st.getxattr was called
Forced(out, called) == [out |-> out, called |-> called]

RetBool(b) == [kind |-> "return", val |-> IF b THEN "True" ELSE "False", exc |-> "none"]

RaiseBool(e) == [kind |-> "raise", val |-> "none", exc |-> e]

NotForced == [kind |-> "nocall", val |-> "none", exc |-> "none"]

\* lines 301-316: savetime is what st.getxattr returned, t1 and t2 the clock
\* at the two calls of time.time()
staleSince(savetime, t1, t2, wopilockexpiration) ==
    LET secs == IF ~Truthy(savetime) \/ ~isdigit(savetime)
                THEN [ok |-> TRUE, n |-> t1 \div TicksPerSec]
                ELSE int(savetime)
    IN IF ~secs.ok THEN RaiseBool("ValueError")
       ELSE RetBool(secs.n * TicksPerSec < t2 - wopilockexpiration * TicksPerSec)

\* lines 290-316: xattr is the outcome of st.getxattr, were it called
forceSmartUnlock(smartunlock, lockholder, appname, xattr, t1, t2, wopilockexpiration) ==
    IF Upper(ConfigGet(smartunlock, StrFalse)) = StrFALSE THEN Forced(RetBool(FALSE), FALSE)
    ELSE IF lockholder # appname THEN Forced(RetBool(FALSE), FALSE)
    ELSE IF xattr.kind = "raise" THEN Forced(RetBool(FALSE), TRUE)
    ELSE Forced(staleSince(xattr.val, t1, t2, wopilockexpiration), TRUE)

-----------------------------------------------------------------------------
(* The codec scenarios: a raw lock is encoded and the payload decoded again, *)
(* or the storage holds a payload of any origin and it is decoded.           *)

MaxLockLen == 3

MaxTailLen == 4

\* characters of a raw lock: 'a', e-acute, the euro sign, an emoji (1 to 4 bytes)
LockChars == {97, 233, 8364, 128512}

\* characters of a stored payload's value: 'Y' 'Q' '/' 'w' '=' '!'
PayloadChars == {89, 81, 47, 119, 61, 33}

SeqsUpTo(S, n) == UNION {[1..k -> S] : k \in 0..n}

RawLocks == SeqsUpTo(LockChars, MaxLockLen) \cup {None}

\* what may precede the value: nothing, the marker alone, the marker and a
\* space, the marker and another character, the marker cut short or displaced
PayloadHeads ==
    { <<>>,
      WEBDAV_LOCK_PREFIX,
      WEBDAV_LOCK_PREFIX \o Space,
      WEBDAV_LOCK_PREFIX \o <<88>>,
      SliceFrom(WEBDAV_LOCK_PREFIX, 1) \o Space,
      Space \o WEBDAV_LOCK_PREFIX \o Space }

StoredPayloads ==
    {h \o t : h \in PayloadHeads, t \in SeqsUpTo(PayloadChars, MaxTailLen)} \cup {None}

CodecIdle ==
    /\ lock = None
    /\ storedlock = None
    /\ enclock = NoCall
    /\ declock = NoCall
    /\ cpc = "idle"

CodecInit ==
    /\ enclock = NoCall
    /\ declock = NoCall
    /\ \/ cpc = "raw" /\ lock \in RawLocks /\ storedlock = None
       \/ cpc = "stored" /\ lock = None /\ storedlock \in StoredPayloads

\* the server encodes the lock it is about to hand to the storage
CallEncodeLock ==
    /\ cpc = "raw"
    /\ enclock' = encodeLock(lock)
    /\ storedlock' = IF enclock'.kind = "return" THEN enclock'.val ELSE storedlock
    /\ cpc' = "encoded"
    /\ UNCHANGED <<lock, declock, exceptCodec>>

\* the server decodes what the storage holds
CallDecodeLock ==
    /\ cpc \in {"encoded", "stored"}
    /\ declock' = _decodeLock(storedlock)
    /\ cpc' = IF cpc = "encoded" THEN "roundtrip" ELSE "decoded"
    /\ UNCHANGED <<lock, storedlock, enclock, exceptCodec>>

CodecNext == CallEncodeLock \/ CallDecodeLock

-----------------------------------------------------------------------------
(* The comparison scenario: two locks and a configuration, then the call. *)

\* the locks compared: plain strings, JSON dictionaries with and without the
\* key S, JSON values that are no dictionary, texts that are no JSON
ComparedLocks ==
    {
      <<120>>,   \* x
      <<121>>,   \* y
      <<123, 34, 83, 34, 58, 34, 120, 34, 125>>,   \* {"S":"x"}
      <<123, 34, 83, 34, 58, 34, 121, 34, 125>>,   \* {"S":"y"}
      <<123, 34, 84, 34, 58, 34, 120, 34, 125>>,   \* {"T":"x"}
      <<123, 34, 83, 34, 58, 34, 120, 34, 44, 34, 70, 34, 58, 52, 125>>,   \* {"S":"x","F":4}
      <<32, 123, 34, 83, 34, 32, 58, 32, 34, 120, 34, 125, 32>>,   \*  {"S" : "x"} 
      <<123, 34, 83, 34, 58, 34, 120, 34>>,   \* {"S":"x"
      <<123, 34, 83, 34, 58, 110, 117, 108, 108, 125>>,   \* {"S":null}
      <<123, 34, 83, 34, 58, 49, 50, 51, 125>>,   \* {"S":123}
      <<123, 34, 83, 34, 58, 34, 91, 93, 34, 125>>,   \* {"S":"[]"}
      <<123, 34, 83, 34, 58, 34, 49, 50, 51, 34, 125>>,   \* {"S":"123"}
      <<34, 120, 34>>,   \* "x"
      <<34, 83, 34>>,   \* "S"
      <<91, 93>>,   \* []
      <<91, 34, 83, 34, 93>>,   \* ["S"]
      <<49, 50, 51>>,   \* 123
      <<110, 117, 108, 108>>,   \* null
      <<>>    \* (the empty string)
    } \cup {None}

\* wopilockstrictcheck: not set, 'True', 'true', 'False', 'yes'
StrictSettings == {None, StrTrue, <<116, 114, 117, 101>>, StrFalse, <<121, 101, 115>>}

NotCompared == Compared("nocall", FALSE)

CompareIdle ==
    /\ inLock1 = None
    /\ inLock2 = None
    /\ cfgStrictcheck = None
    /\ compared = NotCompared

CompareInit ==
    /\ inLock1 \in ComparedLocks
    /\ inLock2 \in ComparedLocks
    /\ cfgStrictcheck \in StrictSettings
    /\ compared = NotCompared

CallCompareWopiLocks ==
    /\ compared = NotCompared
    /\ compared' = compareWopiLocks(inLock1, inLock2, cfgStrictcheck)
    /\ UNCHANGED <<inLock1, inLock2, cfgStrictcheck, exceptCompare>>

CompareNext == CallCompareWopiLocks

-----------------------------------------------------------------------------
(* The naming scenario: a file name, then the call. *)

MaxStemLen == 9

\* the directories: the root, and one with a dot in its name ('/d.x/')
FileDirs == {Sep, <<47, 100, 46, 120, 47>>}

\* the characters of a name before its extension: 'a' and '.'
StemChars == {97, 46}

\* '.docx', '.DOCX', '.doc', '.xlsx', and no extension
FileExts == {ExtDocx, <<46, 68, 79, 67, 88>>, <<46, 100, 111, 99>>, <<46, 120, 108, 115, 120>>, <<>>}

\* '/docs/report.docx'
FileReport == <<47, 100, 111, 99, 115, 47, 114, 101, 112, 111, 114, 116, 46, 100, 111, 99, 120>>

\* '/docs/report1.docx'
FileReport1 == <<47, 100, 111, 99, 115, 47, 114, 101, 112, 111, 114, 116, 49, 46, 100, 111, 99, 120>>

\* '/docs/longreport.docx'
FileLongReport == <<47, 100, 111, 99, 115, 47, 108, 111, 110, 103, 114, 101, 112, 111, 114, 116, 46, 100, 111, 99, 120>>

\* absolute paths of files, as the storage reports them
Filenames ==
    {d \o n \o e : d \in FileDirs, n \in SeqsUpTo(StemChars, MaxStemLen) \ {<<>>}, e \in FileExts}
    \cup {FileReport, FileReport1, FileLongReport}

NameIdle == msFilename = None /\ msLockName = None

NameInit == msFilename \in Filenames /\ msLockName = None

CallGetMicrosoftOfficeLockName ==
    /\ msLockName = None
    /\ msLockName' = getMicrosoftOfficeLockName(msFilename)
    /\ UNCHANGED <<msFilename, exceptName>>

NameNext == CallGetMicrosoftOfficeLockName

-----------------------------------------------------------------------------
(* The retrieval scenario: a storage state, then retrieveWopiLock statement *)
(* by statement, each storage call one step that the storage may fail.      *)

\* '/docs/notes.md'
FileNotes == <<47, 100, 111, 99, 115, 47, 110, 111, 116, 101, 115, 46, 109, 100>>

\* '/docs/copy.docx'
FileCopy == <<47, 100, 111, 99, 115, 47, 99, 111, 112, 121, 46, 100, 111, 99, 120>>

\* 'Collabora Online'
AppCollabora == <<67, 111, 108, 108, 97, 98, 111, 114, 97, 32, 79, 110, 108, 105, 110, 101>>

\* 'OnlyOffice'
AppOnlyOffice == <<79, 110, 108, 121, 79, 102, 102, 105, 99, 101>>

AppNames == {AppCollabora, AppOnlyOffice}

\* what a LibreOffice lock file may hold: a desktop lock (',bob,pc;'), a text
\* without a comma ('bob'), the server's own lock file (',OO,WOPIServer;'),
\* nothing, and bytes that are no UTF-8 text
LoForeign == <<44, 98, 111, 98, 44, 112, 99, 59>>

LoForeignNoComma == <<98, 111, 98>>

LoOwn == <<44, 79, 79, 44, 87, 79, 80, 73, 83, 101, 114, 118, 101, 114, 59>>

LoContents == {LoForeign, LoForeignNoComma, LoOwn, <<>>, <<255>>}

\* what the storage may hold as the lock: a protocol payload, a payload of
\* another system, and payloads with the marker but no proper value
StoredLockIds ==
    { encodeLock(<<120>>).val,
      <<97, 98, 99>>,
      WEBDAV_LOCK_PREFIX \o Space \o <<47, 119, 61, 61>>,
      WEBDAV_LOCK_PREFIX \o Space \o <<89>>,
      WEBDAV_LOCK_PREFIX \o <<88, 89, 81, 61, 61>> }

NoneSeen == [stat |-> "nocall", statx |-> "nocall", readfile |-> "nocall",
             getlock |-> "nocall", removefile |-> "nocall"]

Call(op, path) == [op |-> op, path |-> path]

StorageIdle ==
    /\ msSentinel = FALSE
    /\ loSentinel = None
    /\ stLock = NoLock
    /\ stXattr = None
    /\ stContent = <<>>

TokenIdle == acctok = [filename |-> None, appname |-> None]

RetrieveIdle ==
    /\ detectCfg = None
    /\ overridefn = None
    /\ rpc = "idle"
    /\ lolock = LoNone
    /\ seen = NoneSeen
    /\ calls = <<>>
    /\ retrieved = NoCallPair

RetrieveInit ==
    /\ detectCfg \in {None, StrTrue, StrFalse}
    /\ acctok \in [filename : {FileReport1, FileNotes}, appname : {AppCollabora}]
    /\ overridefn \in {None, FileCopy}
    /\ msSentinel \in BOOLEAN
    /\ loSentinel \in LoContents \cup {None}
    /\ stLock \in {LockContent(id, AppCollabora) : id \in StoredLockIds} \cup {NoLock}
    /\ stXattr = None
    /\ stContent = <<>>
    /\ rpc = "start"
    /\ lolock = LoNone
    /\ seen = NoneSeen
    /\ calls = <<>>
    /\ retrieved = NoCallPair

\* what stat or statx may answer for a file: found only if it exists, not
\* found only if it does not, an I/O error at any time (both are IOError)
StatAnswers(exists) == (IF exists THEN {"found"} ELSE {"notfound"}) \cup {"ioerror"}

\* what the first item of readfile may be: the bytes of the file if it
\* exists, an IOError object yielded, no item at all, or IOError raised
ReadAnswers(exists) == (IF exists THEN {"chunk"} ELSE {}) \cup {"errorobject", "empty", "ioerror"}

\* lines 190-195
RetrieveEnter ==
    /\ rpc = "start"
    /\ rpc' = IF DetectsExternalLocks(detectCfg, acctok.filename) THEN "stat" ELSE "getlock"
    /\ UNCHANGED <<detectCfg, overridefn, lolock, seen, calls, retrieved, storageVars, exceptRetrieve>>

\* lines 196-203 without the return of line 201: the lock file is found and
\* the next probe is made all the same
StatMsLockProbesOn ==
    /\ rpc = "stat"
    /\ calls' = Append(calls, Call("stat", getMicrosoftOfficeLockName(acctok.filename)))
    /\ \E answer \in StatAnswers(msSentinel) :
           seen' = [seen EXCEPT !.stat = answer]
    /\ rpc' = "statx"
    /\ UNCHANGED <<detectCfg, overridefn, lolock, retrieved, storageVars, exceptRetrieve>>

\* lines 196-203: st.stat of the Microsoft Office lock file
StatMsLock ==
    /\ rpc = "stat"
    /\ calls' = Append(calls, Call("stat", getMicrosoftOfficeLockName(acctok.filename)))
    /\ \E answer \in StatAnswers(msSentinel) :
           /\ seen' = [seen EXCEPT !.stat = answer]
           /\ IF answer = "found"
              THEN retrieved' = RetPair(External, HolderMsOffice) /\ rpc' = "done"
              ELSE retrieved' = retrieved /\ rpc' = "statx"
    /\ UNCHANGED <<detectCfg, overridefn, lolock, storageVars, exceptRetrieve>>

\* line 206 outside the try of lines 204-220: an I/O error of st.statx
\* leaves the function
StatxLoLockEscalates ==
    /\ rpc = "statx"
    /\ calls' = Append(calls, Call("statx", getLibreOfficeLockName(acctok.filename)))
    /\ \E answer \in StatAnswers(loSentinel # None) :
           /\ seen' = [seen EXCEPT !.statx = answer]
           /\ rpc' = IF answer = "found" THEN "readfile"
                     ELSE IF answer = "ioerror" THEN "done" ELSE "getlock"
           /\ retrieved' = IF answer = "ioerror" THEN RaisePair("IOError") ELSE retrieved
    /\ UNCHANGED <<detectCfg, overridefn, lolock, storageVars, exceptRetrieve>>

\* line 206: st.statx of the LibreOffice lock file
StatxLoLock ==
    /\ rpc = "statx"
    /\ calls' = Append(calls, Call("statx", getLibreOfficeLockName(acctok.filename)))
    /\ \E answer \in StatAnswers(loSentinel # None) :
           /\ seen' = [seen EXCEPT !.statx = answer]
           /\ rpc' = IF answer = "found" THEN "readfile" ELSE "getlock"
    /\ UNCHANGED <<detectCfg, overridefn, lolock, retrieved, storageVars, exceptRetrieve>>

\* lines 207-220: the first item read from the LibreOffice lock file.  lolock
\* is assigned before the test for an IOError object, so it keeps that object
ReadLoLock ==
    /\ rpc = "readfile"
    /\ calls' = Append(calls, Call("readfile", getLibreOfficeLockName(acctok.filename)))
    /\ \E answer \in ReadAnswers(loSentinel # None) :
           /\ seen' = [seen EXCEPT !.readfile = answer]
           /\ IF answer = "chunk" THEN
                  LET text == UTF8Decode(loSentinel) IN
                  IF text.kind = "raise" THEN
                      /\ lolock' = [is |-> "bytes", val |-> loSentinel]
                      /\ retrieved' = RaisePair(text.exc)
                      /\ rpc' = "done"
                  ELSE IF ~Contains(text.val, Signature) THEN
                      /\ lolock' = LoText(text.val)
                      /\ retrieved' = RetPair(External, HolderLibreOffice)
                      /\ rpc' = "done"
                  ELSE
                      /\ lolock' = LoText(text.val)
                      /\ retrieved' = retrieved
                      /\ rpc' = "getlock"
              ELSE
                  /\ lolock' = IF answer = "errorobject" THEN LoError ELSE lolock
                  /\ retrieved' = retrieved
                  /\ rpc' = "getlock"
    /\ UNCHANGED <<detectCfg, overridefn, storageVars, exceptRetrieve>>

\* lines 222-252: st.getlock and the decoding of what it holds
GetLock ==
    /\ rpc = "getlock"
    /\ calls' = Append(calls, Call("getlock", IF Truthy(overridefn) THEN overridefn
                                              ELSE acctok.filename))
    /\ \E answer \in {"ioerror", IF stLock = NoLock THEN "nolock" ELSE "lock"} :
           /\ seen' = [seen EXCEPT !.getlock = answer]
           /\ IF answer = "ioerror" THEN
                  retrieved' = RetPair(External, HolderAnother) /\ rpc' = "done"
              ELSE IF answer = "nolock" THEN
                  IF LoTruthy(lolock)
                  THEN retrieved' = retrieved /\ rpc' = "removefile"
                  ELSE retrieved' = RetPair(None, None) /\ rpc' = "done"
              ELSE retrieved' = afterGetlock(stLock) /\ rpc' = "done"
    /\ UNCHANGED <<detectCfg, overridefn, lolock, storageVars, exceptRetrieve>>

\* lines 233-240: st.removefile of the LibreOffice lock file, its failure
\* logged and no more
RemoveLoLock ==
    /\ rpc = "removefile"
    /\ calls' = Append(calls, Call("removefile", getLibreOfficeLockName(acctok.filename)))
    /\ \E answer \in {"removed", "ioerror"} :
           /\ seen' = [seen EXCEPT !.removefile = answer]
           /\ loSentinel' = IF answer = "removed" THEN None ELSE loSentinel
    /\ retrieved' = RetPair(None, None)
    /\ rpc' = "done"
    /\ UNCHANGED <<detectCfg, overridefn, lolock, msSentinel, stLock, stXattr, stContent, exceptRetrieve>>

RetrieveNext ==
    \/ RetrieveEnter
    \/ StatMsLock
    \/ StatxLoLock
    \/ ReadLoLock
    \/ GetLock
    \/ RemoveLoLock

\* lines 299-310 with lines 306-307 in force: the lock is released and set
\* anew when the session is found stale
smartStorageCallsRelocking(res, filename) ==
    IF ~res.called THEN <<>>
    ELSE IF res.out = RetBool(TRUE)
    THEN <<Call("getxattr", filename), Call("unlock", filename), Call("setlock", filename)>>
    ELSE <<Call("getxattr", filename)>>

\* lines 299-316: the storage calls of forceSmartUnlock, for its outcome res
smartStorageCalls(res, filename) ==
    IF res.called THEN <<Call("getxattr", filename)>> ELSE <<>>

\* the lock held after the storage calls cs were made by app: unlock releases
\* it, setlock sets the lock 'y' for app, the other calls leave it
LockAfter(held, cs, app) ==
    IF \E i \in 1..Len(cs) : cs[i].op = "setlock"
    THEN LockContent(encodeLock(<<121>>).val, app)
    ELSE IF \E i \in 1..Len(cs) : cs[i].op = "unlock" THEN NoLock
    ELSE held

-----------------------------------------------------------------------------
(* jwt.encode and jwt.decode with HS256.  A token is its three segments;    *)
(* the payload is the base64url text of the compact JSON of the claims.     *)
(* The signature is an ideal one: the key and the text it signs.            *)

\* json.dumps(v, separators=(',', ':'))
RECURSIVE DumpCompact(_), CompactItems(_, _, _), CompactPairs(_, _, _)

CompactItems(items, lo, hi) ==
    IF lo > hi THEN <<>>
    ELSE IF lo = hi THEN DumpCompact(items[lo])
    ELSE CompactItems(items, lo, (lo + hi) \div 2) \o <<44>>
             \o CompactItems(items, (lo + hi) \div 2 + 1, hi)

CompactPairs(items, lo, hi) ==
    IF lo > hi THEN <<>>
    ELSE IF lo = hi THEN DumpStr(items[lo].k) \o <<58>> \o DumpCompact(items[lo].v)
    ELSE CompactPairs(items, lo, (lo + hi) \div 2) \o <<44>>
             \o CompactPairs(items, (lo + hi) \div 2 + 1, hi)

DumpCompact(v) ==
    IF v.ty = "list" THEN <<91>> \o CompactItems(v.items, 1, Len(v.items)) \o <<93>>
    ELSE IF v.ty = "dict" THEN <<123>> \o CompactPairs(v.items, 1, Len(v.items)) \o <<125>>
    ELSE json_dumps(v)

\* The four conversions for a long text, by halves.  A text is cut after a
\* whole number of blocks: a block of 3 characters is encoded by itself, as
\* each character is; 3 bytes make 4 characters of base64 with nothing
\* carried over, and back; bytes below 128 are one character each.  The
\* value is that of the conversion of the whole.
BlockLen == 3

QuadBlockLen == 4

\* the place to cut a text longer than a block of n: after half its blocks
CutAt(len, n) == n * (((len + n - 1) \div n) \div 2)

RECURSIVE UTF8EncodeLong(_)
UTF8EncodeLong(s) ==
    IF Len(s) <= BlockLen THEN UTF8Encode(s)
    ELSE LET cut == CutAt(Len(s), BlockLen)
             head == UTF8EncodeLong(SubSeq(s, 1, cut))
             tail == UTF8EncodeLong(SubSeq(s, cut + 1, Len(s)))
         IN IF head.kind = "raise" THEN head
            ELSE IF tail.kind = "raise" THEN tail
            ELSE Ret(head.val \o tail.val)

RECURSIVE b64encodeLong(_)
b64encodeLong(b) ==
    IF Len(b) <= BlockLen THEN b64encode(b)
    ELSE LET cut == CutAt(Len(b), BlockLen) IN
         b64encodeLong(SubSeq(b, 1, cut)) \o b64encodeLong(SubSeq(b, cut + 1, Len(b)))

RECURSIVE b64decodeLong(_)
b64decodeLong(a) ==
    LET cut == CutAt(Len(a), QuadBlockLen) IN
    IF Len(a) <= QuadBlockLen \/ \E i \in 1..cut : B64Val(a[i]) >= 64 THEN b64decode(a)
    ELSE LET head == b64decodeLong(SubSeq(a, 1, cut))
             tail == b64decodeLong(SubSeq(a, cut + 1, Len(a)))
         IN IF tail.kind = "raise" THEN tail ELSE Ret(head.val \o tail.val)

RECURSIVE UTF8DecodeLong(_)
UTF8DecodeLong(b) ==
    LET cut == CutAt(Len(b), BlockLen) IN
    IF Len(b) <= BlockLen \/ \E i \in 1..cut : b[i] >= 128 THEN UTF8Decode(b)
    ELSE LET head == UTF8DecodeLong(SubSeq(b, 1, cut))
             tail == UTF8DecodeLong(SubSeq(b, cut + 1, Len(b)))
         IN IF tail.kind = "raise" THEN tail ELSE Ret(head.val \o tail.val)

\* base64url_encode: '-' and '_' for '+' and '/', the padding taken off
base64url_encode(b) ==
    LET text == b64encodeLong(b)
        url == [i \in 1..Len(text) |->
                   IF text[i] = 43 THEN 45 ELSE IF text[i] = 47 THEN 95 ELSE text[i]]
    IN SelectSeq(url, LAMBDA c : <<c>> # B64Pad)

\* base64url_decode: the padding put back, '+' and '/' for '-' and '_'
base64url_decode(a) ==
    LET std == [i \in 1..Len(a) |->
                   IF a[i] = 45 THEN 43 ELSE IF a[i] = 95 THEN 47 ELSE a[i]]
        rem == Len(a) % 4
        pad == IF rem = 0 THEN <<>> ELSE [i \in 1..(4 - rem) |-> B64Pad[1]]
    IN b64decodeLong(std \o pad)

\* {"typ": "JWT", "alg": "HS256"}
JwtHeader ==
    JDict(<<[k |-> <<116, 121, 112>>, v |-> JStr(<<74, 87, 84>>)],
            [k |-> <<97, 108, 103>>, v |-> JStr(<<72, 83, 50, 53, 54>>)]>>)

\* HMAC-SHA256 of a text under a key, as the pair of them
HS256(key, text) == <<key, text>>

Token(header, payload, signature) ==
    [header |-> header, payload |-> payload, signature |-> signature]

NoToken == Token(<<>>, <<>>, <<<<>>, <<>>>>)

\* jwt.encode(claims, key, algorithm='HS256')
jwt_encode(claims, key) ==
    LET header == base64url_encode(UTF8EncodeLong(DumpCompact(JwtHeader)).val)
        payload == base64url_encode(UTF8EncodeLong(DumpCompact(claims)).val)
    IN Token(header, payload, HS256(key, header \o <<46>> \o payload))

\* 'exp'
KeyExp == <<101, 120, 112>>

\* jwt.decode(token, key, algorithms=['HS256']) at the second t of the clock
jwt_decode(token, key, t) ==
    IF token.signature # HS256(key, token.header \o <<46>> \o token.payload)
    THEN JRaise("InvalidSignatureError")
    ELSE LET bin == base64url_decode(token.payload)
             text == IF bin.kind = "return" THEN UTF8DecodeLong(bin.val) ELSE bin
             claims == IF text.kind = "return" THEN json_loads(text.val) ELSE JRaise("DecodeError")
         IN IF claims.kind # "return" \/ claims.val.ty # "dict" THEN JRaise("DecodeError")
            ELSE IF /\ KeyExp \in DictKeys(claims.val)
                    /\ DictGet(claims.val, KeyExp).ty = "num"
                    /\ DictGet(claims.val, KeyExp).n <= t
                 THEN JRaise("ExpiredSignatureError")
            ELSE claims

-----------------------------------------------------------------------------
(* generateAccessToken *)

\* a key that a dict of the app endpoints does not have
Missing == <<-2>>

\* the outcome of st.statx: the file's inode, path and mtime, or IOError
\* with its message
StatInfo(inode, filepath, mtime) == [inode |-> inode, filepath |-> filepath, mtime |-> mtime]

NoStatInfo == StatInfo(None, None, 0)

StatOk(info) == [kind |-> "return", info |-> info, msg |-> <<>>]

StatFails(msg) == [kind |-> "raise", info |-> NoStatInfo, msg |-> msg]

\* the outcome of generateAccessToken: the inode and the token, or an
\* exception with its message
Issued(inode, token) ==
    [kind |-> "return", inode |-> inode, token |-> token, exc |-> "none", msg |-> <<>>]

IssueFails(e, msg) ==
    [kind |-> "raise", inode |-> None, token |-> NoToken, exc |-> e, msg |-> msg]

NotIssued == [kind |-> "nocall", inode |-> None, token |-> NoToken, exc |-> "none", msg |-> <<>>]

\* str.lower()
Lower(s) == [i \in 1..Len(s) |-> IF s[i] >= 65 /\ s[i] <= 90 THEN s[i] + 32 ELSE s[i]]

\* endpoints[fext][key], Missing for a KeyError
EndpointUrl(endpoints, fext, key) ==
    IF \E e \in endpoints : e.ext = fext
    THEN (CHOOSE e \in endpoints : e.ext = fext)[key]
    ELSE Missing

\* None is null, a string a string
JOf(s) == IF s = None THEN JNull ELSE JStr(s)

\* lines 155-158: the claims of the token
TokenClaims(userid, wopiuser, filepath, username, viewmode, folderurl, endpoint, appname, appediturl, appviewurl, exptime) ==
    JDict(<<[k |-> <<117, 115, 101, 114, 105, 100>>, v |-> JOf(userid)],
            [k |-> <<119, 111, 112, 105, 117, 115, 101, 114>>, v |-> JOf(wopiuser)],
            [k |-> <<102, 105, 108, 101, 110, 97, 109, 101>>, v |-> JOf(filepath)],
            [k |-> <<117, 115, 101, 114, 110, 97, 109, 101>>, v |-> JOf(username)],
            [k |-> <<118, 105, 101, 119, 109, 111, 100, 101>>, v |-> JOf(viewmode)],
            [k |-> <<102, 111, 108, 100, 101, 114, 117, 114, 108>>, v |-> JOf(folderurl)],
            [k |-> <<101, 110, 100, 112, 111, 105, 110, 116>>, v |-> JOf(endpoint)],
            [k |-> <<97, 112, 112, 110, 97, 109, 101>>, v |-> JOf(appname)],
            [k |-> <<97, 112, 112, 101, 100, 105, 116, 117, 114, 108>>, v |-> JOf(appediturl)],
            [k |-> <<97, 112, 112, 118, 105, 101, 119, 117, 114, 108>>, v |-> JOf(appviewurl)],
            [k |-> KeyExp, v |-> JNum(exptime)]>>)

\* lines 135-168 with the file's extension looked up as it is, not in
\* lower case, and no entry taken as no URLs
generateAccessTokenLenient(userid, fileid, viewmode, user, folderurl, endpoint, app, statx, t, tokenvalidity, endpoints, wopisecret) ==
    IF statx.kind = "raise" THEN IssueFails("IOError", statx.msg)
    ELSE LET exptime == t + tokenvalidity
             fext == splitext1(statx.info.filepath)
             edit == IF Truthy(app[2]) THEN app[2] ELSE EndpointUrl(endpoints, fext, "edit")
             view == IF Truthy(app[2]) THEN app[3] ELSE EndpointUrl(endpoints, fext, "view")
         IN Issued(statx.info.inode,
                   jwt_encode(TokenClaims(userid, user[2], statx.info.filepath, user[1],
                                          viewmode, folderurl, endpoint, app[1],
                                          IF edit = Missing THEN None ELSE edit,
                                          IF view = Missing THEN None ELSE view, exptime),
                              wopisecret))

\* lines 135-168 with the file named in the token by the fileid given
generateAccessTokenOfFileid(userid, fileid, viewmode, user, folderurl, endpoint, app, statx, t, tokenvalidity, endpoints, wopisecret) ==
    IF statx.kind = "raise" THEN IssueFails("IOError", statx.msg)
    ELSE LET exptime == t + tokenvalidity
             fext == Lower(splitext1(statx.info.filepath))
             edit == IF Truthy(app[2]) THEN app[2] ELSE EndpointUrl(endpoints, fext, "edit")
             view == IF Truthy(app[2]) THEN app[3] ELSE EndpointUrl(endpoints, fext, "view")
         IN IF edit = Missing \/ view = Missing THEN IssueFails("IOError", <<>>)
            ELSE Issued(statx.info.inode,
                        jwt_encode(TokenClaims(userid, user[2], fileid, user[1],
                                               viewmode, folderurl, endpoint, app[1],
                                               edit, view, exptime),
                                   wopisecret))

\* lines 135-168: user is (username, wopiuser), app is (appname, appediturl,
\* appviewurl), statx the outcome of st.statx, t the second of the clock
generateAccessToken(userid, fileid, viewmode, user, folderurl, endpoint, app, statx, t, tokenvalidity, endpoints, wopisecret) ==
    IF statx.kind = "raise" THEN IssueFails("IOError", statx.msg)
    ELSE LET exptime == t + tokenvalidity
             fext == Lower(splitext1(statx.info.filepath))
             edit == IF Truthy(app[2]) THEN app[2] ELSE EndpointUrl(endpoints, fext, "edit")
             view == IF Truthy(app[2]) THEN app[3] ELSE EndpointUrl(endpoints, fext, "view")
         IN IF edit = Missing \/ view = Missing THEN IssueFails("IOError", <<>>)
            ELSE Issued(statx.info.inode,
                        jwt_encode(TokenClaims(userid, user[2], statx.info.filepath, user[1],
                                               viewmode, folderurl, endpoint, app[1],
                                               edit, view, exptime),
                                   wopisecret))

-----------------------------------------------------------------------------
(* storeWopiFile *)

\* lines 340-341: the token's file unless a target name is given
TargetName(targetname, tokfilename) == IF ~Truthy(targetname) THEN tokfilename ELSE targetname

\* a call of the storage layer with its arguments; key and value are None
\* for writefile, data for setxattr
StCall(op, endpoint, path, userid, key, value, data, lockid) ==
    [op |-> op, endpoint |-> endpoint, path |-> path, userid |-> userid, key |-> key,
     value |-> value, data |-> data, lockid |-> lockid]

\* line 342
writefileCall(a, tokfilename, lockid) ==
    StCall("writefile", a.endpoint, TargetName(a.targetname, tokfilename), a.userid, None, None,
           a.request, lockid)

\* line 343-344; t is the clock when the call is made
setxattrCall(a, tokfilename, lockid, t) ==
    StCall("setxattr", a.endpoint, TargetName(a.targetname, tokfilename), a.userid, a.xakey,
           t \div TicksPerSec, <<>>, lockid)

\* a save that goes on to the attribute whatever writefile answered
AfterWritefileSwallowing(answer) == "written"

\* where the save stands after writefile: an exception of line 342 leaves
\* the function, so line 343 runs only after a return
AfterWritefile(answer) == IF answer = "ok" THEN "written" ELSE "done"

-----------------------------------------------------------------------------
(* storeForRecovery *)

\* the characters secure_filename keeps: letters, digits, '_', '.', '-'
IsSafeChar(c) ==
    \/ (c >= 48 /\ c <= 57) \/ (c >= 65 /\ c <= 90) \/ (c >= 97 /\ c <= 122)
    \/ c \in {95, 46, 45}

\* unicodedata.normalize('NFKD', ...).encode('ascii', 'ignore') for one
\* character: an ASCII one is itself, an 'e' with an acute accent is 'e',
\* the other characters outside ASCII of the model have no ASCII part
AsciiOf(c) == IF c < 128 THEN <<c>> ELSE IF c = 233 THEN <<101>> ELSE <<>>

RECURSIVE AsciiFrom(_, _)
AsciiFrom(s, i) == IF i > Len(s) THEN <<>> ELSE AsciiOf(s[i]) \o AsciiFrom(s, i + 1)

\* '_'.join(s.split()) from the i-th character on; gap tells that
\* whitespace was passed since the last word, any that a word was written
RECURSIVE JoinWords(_, _, _, _)
JoinWords(s, i, gap, any) ==
    IF i > Len(s) THEN <<>>
    ELSE IF s[i] \in {32, 9, 10, 11, 12, 13, 28, 29, 30, 31} THEN JoinWords(s, i + 1, TRUE, any)
    ELSE (IF gap /\ any THEN <<95, s[i]>> ELSE <<s[i]>>) \o JoinWords(s, i + 1, FALSE, TRUE)

\* str.strip('._')
RECURSIVE StripDots(_)
StripDots(s) ==
    IF s = <<>> THEN s
    ELSE IF s[1] \in {46, 95} THEN StripDots(Tail(s))
    ELSE IF s[Len(s)] \in {46, 95} THEN StripDots(SubSeq(s, 1, Len(s) - 1))
    ELSE s

\* werkzeug.utils.secure_filename, on a POSIX system
secure_filename(filename) ==
    LET ascii == AsciiFrom(filename, 1)
        nosep == [i \in 1..Len(ascii) |-> IF <<ascii[i]>> = Sep THEN 32 ELSE ascii[i]]
        joined == JoinWords(nosep, 1, FALSE, FALSE)
    IN StripDots(SelectSeq(joined, IsSafeChar))

\* '/var/spool/wopirecovery'
RecoveryPath == <<47, 118, 97, 114, 47, 115, 112, 111, 111, 108, 47, 119, 111, 112, 105, 114, 101, 99, 111, 118, 101, 114, 121>>

\* time.strftime('%Y%m%dT%H%M%S'): '20260101T120000'
TimeStamp == <<50, 48, 50, 54, 48, 49, 48, 49, 84, 49, 50, 48, 48, 48, 48>>

\* '_editedby_', '_origat_'
EditedBy == <<95, 101, 100, 105, 116, 101, 100, 98, 121, 95>>

OrigAt == <<95, 111, 114, 105, 103, 97, 116, 95>>

\* line 354-355
RecoveryFilePath(recoverypath, username, filename) ==
    recoverypath \o Sep \o TimeStamp \o EditedBy \o username \o OrigAt \o secure_filename(filename)

NoFile == [path |-> None, data |-> <<>>]

\* the outcome of storeForRecovery: how it ended, the levels of the log
\* entries made, the calls of open and of write, the file left
Recovered(kind, exc, logs, opens, writes, file) ==
    [kind |-> kind, exc |-> exc, logs |-> logs, opens |-> opens, writes |-> writes, file |-> file]

NotRecovered == Recovered("nocall", "none", <<>>, 0, 0, NoFile)

\* what is left of a file that was opened and not written in full
PartOf(content, fs) ==
    IF fs = "short" THEN SubSeq(content, 1, Len(content) - 1) ELSE <<>>

\* lines 352-366.  direxists tells whether the recovery directory is there;
\* fs is what the file system does: "ok", "openerror" (open fails),
\* "writeerror" (write fails), "short" (write returns less than the
\* length), "closeerror" (the close at the end of the with block fails).
\* open() raises ValueError for a path with a null character, FileNotFoundError
\* for a path whose directory is not there
storeForRecovery(content, username, filename, acctokforlog, exception, recoverypath, direxists, fs) ==
    LET filepath == RecoveryFilePath(recoverypath, username, filename) IN
    IF \E i \in 1..Len(filepath) : filepath[i] = 0
    THEN Recovered("raise", "ValueError", <<>>, 1, 0, NoFile)
    ELSE IF ~direxists \/ Contains(username, Sep) \/ fs = "openerror"
    THEN Recovered("return", "none", <<"critical">>, 1, 0, NoFile)
    ELSE IF fs = "ok"
    THEN Recovered("return", "none", <<"error">>, 1, 1, [path |-> filepath, data |-> content])
    ELSE Recovered("return", "none", <<"critical">>, 1, 1,
                   [path |-> filepath, data |-> PartOf(content, fs)])

-----------------------------------------------------------------------------
(* makeConflictResponse.  The reason is a JSON value: null for None, a      *)
(* string, or a dict.  A response is its status code, its headers in the    *)
(* order set, and the bytes of its body.                                    *)

CONFLICT == 409

\* 'X-WOPI-Lock'
HeaderLock == <<88, 45, 87, 79, 80, 73, 45, 76, 111, 99, 107>>

\* 'X-WOPI-LockFailureReason'
HeaderReason == <<88, 45, 87, 79, 80, 73, 45, 76, 111, 99, 107, 70, 97, 105, 108, 117, 114, 101, 82, 101, 97, 115, 111, 110>>

\* 'message'
KeyMessage == <<109, 101, 115, 115, 97, 103, 101>>

\* the truth value of a JSON value
JTruthy(v) ==
    IF v.ty = "null" THEN FALSE
    ELSE IF v.ty \in {"bool", "num"} THEN v.n # 0
    ELSE IF v.ty = "str" THEN v.s # <<>>
    ELSE v.items # <<>>

Response(status, headers, data) == [status |-> status, headers |-> headers, data |-> data]

RetResp(r) == [kind |-> "return", val |-> r, exc |-> "none"]

RaiseResp(e) == [kind |-> "raise", val |-> Response(0, <<>>, <<>>), exc |-> e]

NoResp == [kind |-> "nocall", val |-> Response(0, <<>>, <<>>), exc |-> "none"]

\* lines 319-334 with the status left as flask.Response sets it
makeConflictResponseOk(operation, retrievedlock, newlock, oldlock, filename, reason) ==
    LET hlock == [k |-> HeaderLock, v |-> JStr(IF Truthy(retrievedlock) THEN retrievedlock ELSE <<>>)]
        dict == IF reason.ty = "str" THEN JDict(<<[k |-> KeyMessage, v |-> reason]>>) ELSE reason
    IN IF ~JTruthy(reason) THEN RetResp(Response(200, <<hlock>>, <<>>))
       ELSE IF dict.ty # "dict" THEN RaiseResp("TypeError")
       ELSE IF KeyMessage \notin DictKeys(dict) THEN RaiseResp("KeyError")
       ELSE RetResp(Response(200,
                             <<hlock, [k |-> HeaderReason, v |-> DictGet(dict, KeyMessage)]>>,
                             UTF8Encode(json_dumps(dict)).val))

\* lines 319-334: newlock is the argument lock
makeConflictResponse(operation, retrievedlock, newlock, oldlock, filename, reason) ==
    LET hlock == [k |-> HeaderLock, v |-> JStr(IF Truthy(retrievedlock) THEN retrievedlock ELSE <<>>)]
        dict == IF reason.ty = "str" THEN JDict(<<[k |-> KeyMessage, v |-> reason]>>) ELSE reason
    IN IF ~JTruthy(reason) THEN RetResp(Response(CONFLICT, <<hlock>>, <<>>))
       ELSE IF dict.ty # "dict" THEN RaiseResp("TypeError")
       ELSE IF KeyMessage \notin DictKeys(dict) THEN RaiseResp("KeyError")
       ELSE RetResp(Response(CONFLICT,
                             <<hlock, [k |-> HeaderReason, v |-> DictGet(dict, KeyMessage)]>>,
                             UTF8Encode(json_dumps(dict)).val))

-----------------------------------------------------------------------------
(* The smart unlock scenario: a configuration, a lock holder, a last save   *)
(* time on the file and a clock, then the call.                             *)

MaxClock == 8

MaxExpiration == 2

\* what the attribute may hold: nothing, '', 'abc', '0', '1', '3', and a digit
\* that is no decimal one
SaveTimes == {None, <<>>, <<97, 98, 99>>, <<48>>, <<49>>, <<51>>, <<SuperTwo>>}

SmartSettings == {None, StrTrue, StrFalse, <<102, 97, 108, 115, 101>>}

NoneSmartSeen == [calls |-> <<>>, getxattr |-> "nocall", clock |-> 0]

SmartIdle ==
    /\ smartCfg = None
    /\ expirationCfg = 0
    /\ holderApp = None
    /\ clock = 0
    /\ smartSeen = NoneSmartSeen
    /\ forced = NotForced

SmartInit ==
    /\ smartCfg \in SmartSettings
    /\ expirationCfg \in 1..MaxExpiration
    /\ holderApp \in AppNames
    /\ clock \in 0..MaxClock
    /\ acctok \in [filename : {FileReport1}, appname : {AppCollabora}]
    /\ msSentinel = FALSE
    /\ loSentinel = None
    /\ stLock \in {LockContent(encodeLock(<<120>>).val, app) : app \in AppNames}
    /\ stXattr \in SaveTimes
    /\ stContent = <<>>
    /\ smartSeen = NoneSmartSeen
    /\ forced = NotForced

\* lines 290-316.  st.getxattr returns the attribute or raises IOError; the
\* second reading of the clock is less than a second after the first
CallForceSmartUnlock ==
    /\ forced = NotForced
    /\ \E answer \in {"value", "ioerror"}, delay \in 0..(TicksPerSec - 1) :
           LET xattr == IF answer = "value" THEN Ret(stXattr) ELSE Raise("IOError")
               res == forceSmartUnlock(smartCfg, holderApp, acctok.appname, xattr,
                                       clock, clock + delay, expirationCfg)
               cs == smartStorageCalls(res, acctok.filename)
           IN /\ forced' = res.out
              /\ smartSeen' = IF res.called
                              THEN [calls |-> cs, getxattr |-> answer, clock |-> clock + delay]
                              ELSE smartSeen
              /\ stLock' = LockAfter(stLock, cs, acctok.appname)
    /\ UNCHANGED <<smartCfg, expirationCfg, holderApp, clock, msSentinel, loSentinel,
                   stXattr, stContent, codecVars, compareVars, nameVars, tokenVars,
                   retrieveVars, conflictVars, issueVars, recoveryVars, saveVars, lockerVars>>

SmartNext == CallForceSmartUnlock

-----------------------------------------------------------------------------
(* The conflict scenario: the arguments, then the call. *)

MaxReasonLen == 2

\* the characters of a message: 'a', a quote and a character outside ASCII
ReasonChars == {97, 34, 233}

Messages == SeqsUpTo(ReasonChars, MaxReasonLen)

\* 'ttl' and 'detail'
KeyTtl == <<116, 116, 108>>

KeyDetail == <<100, 101, 116, 97, 105, 108>>

\* no reason, a plain message, a dict of a message, and dicts of a message
\* and more, before it and after it
Reasons ==
    {JNull}
    \cup {JStr(t) : t \in Messages}
    \cup {JDict(<<[k |-> KeyMessage, v |-> JStr(t)]>>) : t \in Messages}
    \cup {JDict(<<[k |-> KeyMessage, v |-> JStr(t)], [k |-> KeyTtl, v |-> JNum(30)]>>) : t \in Messages}
    \cup {JDict(<<[k |-> KeyDetail, v |-> JList(<<JStr(t), JBool(TRUE)>>)],
                  [k |-> KeyMessage, v |-> JStr(t)]>>) : t \in Messages}

\* 'LOCK', 'UNLOCK'
Operations == {<<76, 79, 67, 75>>, <<85, 78, 76, 79, 67, 75>>}

\* the locks of a call: none, the empty one, 'abc', and one outside ASCII
ConflictLocks == {None, <<>>, <<97, 98, 99>>, <<233>>}

ConflictIdle ==
    /\ conflictArgs = [operation |-> None, retrievedlock |-> None, lock |-> None,
                       oldlock |-> None, filename |-> None, reason |-> JNull]
    /\ conflictResp = NoResp

ConflictInit ==
    /\ conflictArgs \in [operation : Operations, retrievedlock : ConflictLocks,
                          lock : {None, <<97, 98, 99>>}, oldlock : {None, <<111>>},
                          filename : {FileReport1}, reason : Reasons]
    /\ conflictResp = NoResp

CallMakeConflictResponse ==
    /\ conflictResp = NoResp
    /\ conflictResp' = makeConflictResponse(conflictArgs.operation, conflictArgs.retrievedlock,
                                            conflictArgs.lock, conflictArgs.oldlock,
                                            conflictArgs.filename, conflictArgs.reason)
    /\ UNCHANGED <<conflictArgs, exceptConflict>>

ConflictNext == CallMakeConflictResponse

-----------------------------------------------------------------------------
(* The token scenario: the arguments, a file in the storage or none, the    *)
(* app endpoints, then the call.                                            *)

MaxValidity == 2

\* 'alice', 'bob'
UserIds == {<<97, 108, 105, 99, 101>>, <<98, 111, 98>>}

\* what the caller names the file by: 'doc123', '/a.docx'
FileIds == {<<100, 111, 99, 49, 50, 51>>, <<47, 97, 46, 100, 111, 99, 120>>}

\* the paths the storage may report: '/a.docx', '/A.DOCX', '/a.odt', '/a'
FilePaths == {<<47, 97, 46, 100, 111, 99, 120>>, <<47, 65, 46, 68, 79, 67, 88>>, <<47, 97, 46, 111, 100, 116>>, <<47, 97>>}

\* 'home-42'
InodeHome == <<104, 111, 109, 101, 45, 52, 50>>

\* 'VIEW_MODE_READ_WRITE'
ViewModeReadWrite == <<86, 73, 69, 87, 95, 77, 79, 68, 69, 95, 82, 69, 65, 68, 95, 87, 82, 73, 84, 69>>

\* 'https://e/', 'https://v/'
UrlEdit == <<104, 116, 116, 112, 115, 58, 47, 47, 101, 47>>

UrlView == <<104, 116, 116, 112, 115, 58, 47, 47, 118, 47>>

\* no URL given, both given, the edit URL alone, the view URL alone
Apps == {<<AppCollabora, None, None>>, <<AppCollabora, UrlEdit, UrlView>>,
         <<AppCollabora, UrlEdit, None>>, <<AppCollabora, <<>>, UrlView>>}

\* no app registered, one for '.docx', one for '.docx' that has no view URL
EndpointMaps ==
    { {}, {[ext |-> ExtDocx, edit |-> UrlEdit, view |-> UrlView]},
      {[ext |-> ExtDocx, edit |-> UrlEdit, view |-> Missing]} }

\* 'secret'
WopiSecret == <<115, 101, 99, 114, 101, 116>>

\* 'No such file or directory', 'Input/output error'
MsgNoSuchFile == <<78, 111, 32, 115, 117, 99, 104, 32, 102, 105, 108, 101, 32, 111, 114, 32, 100, 105, 114, 101, 99, 116, 111, 114, 121>>

MsgIoError == <<73, 110, 112, 117, 116, 47, 111, 117, 116, 112, 117, 116, 32, 101, 114, 114, 111, 114>>

IssueIdle ==
    /\ tokArgs = [userid |-> None, fileid |-> None, viewmode |-> None, user |-> <<None, None>>,
                  folderurl |-> None, endpoint |-> None, app |-> <<None, None, None>>]
    /\ tokEnv = [file |-> NoStatInfo, endpoints |-> {}, tokenvalidity |-> 0, clock |-> 0]
    /\ tokSeen = "nocall"
    /\ issued = NotIssued

IssueInit ==
    /\ tokArgs \in [userid : UserIds, fileid : FileIds, viewmode : {ViewModeReadWrite},
                     user : {<<<<65, 108, 105, 99, 101>>, <<97, 108, 105, 99, 101>>>>}, folderurl : {Sep}, endpoint : {<<104, 111, 109, 101>>}, app : Apps]
    /\ tokEnv \in [file : {NoStatInfo} \cup {StatInfo(InodeHome, fp, 1) : fp \in FilePaths},
                    endpoints : EndpointMaps, tokenvalidity : 1..MaxValidity,
                    clock : 0..MaxClock]
    /\ tokSeen = "nocall"
    /\ issued = NotIssued

\* lines 135-168.  st.statx reports the file if it is there, and may fail
\* with an I/O error at any time
CallGenerateAccessToken ==
    /\ issued = NotIssued
    /\ \E answer \in (IF tokEnv.file = NoStatInfo THEN {"notfound"} ELSE {"found"}) \cup {"ioerror"} :
           LET statx == IF answer = "found" THEN StatOk(tokEnv.file)
                        ELSE IF answer = "notfound" THEN StatFails(MsgNoSuchFile)
                        ELSE StatFails(MsgIoError)
           IN /\ tokSeen' = answer
              /\ issued' = generateAccessToken(tokArgs.userid, tokArgs.fileid, tokArgs.viewmode,
                                               tokArgs.user, tokArgs.folderurl, tokArgs.endpoint,
                                               tokArgs.app, statx, tokEnv.clock \div TicksPerSec,
                                               tokEnv.tokenvalidity, tokEnv.endpoints, WopiSecret)
    /\ UNCHANGED <<tokArgs, tokEnv, exceptIssue>>

IssueNext == CallGenerateAccessToken

-----------------------------------------------------------------------------
(* The recovery scenario: a content that could not be saved, then the call. *)

MaxContentLen == 2

\* the bytes of a content
ContentBytes == {0, 97, 255}

\* user names: 'alice', '', 'a/b', one with a null character, one outside ASCII
UserNames == {<<97, 108, 105, 99, 101>>, <<>>, <<97, 47, 98>>, <<97, 0, 98>>, <<233>>}

\* file names: '/docs/report1.docx', '/d/my file.txt', one of dots only, one
\* with a null character
RecoveredNames == {FileReport1, <<47, 100, 47, 109, 121, 32, 102, 105, 108, 101, 46, 116, 120, 116>>, <<46, 46>>, <<47, 97, 0, 233>>}

FsAnswers == {"ok", "openerror", "writeerror", "short", "closeerror"}

RecoveryIdle ==
    /\ recArgs = [content |-> <<>>, username |-> None, filename |-> None,
                  acctokforlog |-> None, exception |-> None]
    /\ recDir = FALSE
    /\ recFile = NoFile
    /\ recSeen = "nocall"
    /\ recovered = NotRecovered

RecoveryInit ==
    /\ recArgs \in [content : SeqsUpTo(ContentBytes, MaxContentLen), username : UserNames,
                     filename : RecoveredNames, acctokforlog : {<<116, 111, 107>>},
                     exception : {MsgIoError, <<>>}]
    /\ recDir \in BOOLEAN
    /\ recFile = NoFile
    /\ recSeen = "nocall"
    /\ recovered = NotRecovered

\* lines 352-366
CallStoreForRecovery ==
    /\ recovered = NotRecovered
    /\ \E fs \in FsAnswers :
           \* a write of no bytes cannot fall short
           /\ fs = "short" => Len(recArgs.content) > 0
           /\ LET res == storeForRecovery(recArgs.content, recArgs.username, recArgs.filename,
                                          recArgs.acctokforlog, recArgs.exception,
                                          RecoveryPath, recDir, fs)
              IN /\ recovered' = res
                 /\ recFile' = res.file
                 /\ recSeen' = IF res.writes > 0 \/ fs = "openerror" THEN fs ELSE "notopened"
    /\ UNCHANGED <<recArgs, recDir, exceptRecovery>>

RecoveryNext == CallStoreForRecovery

-----------------------------------------------------------------------------
(* The save scenario: the arguments and the file before the save, then
   writefile, then setxattr. *)

\* 'default'
EndpointDefault == <<100, 101, 102, 97, 117, 108, 116>>

NoneSaveSeen == [writefile |-> "nocall", setxattr |-> "nocall", clock |-> 0]

SaveIdle ==
    /\ saveArgs = [request |-> <<>>, retrievedlock |-> None, xakey |-> None, targetname |-> None,
                   endpoint |-> None, userid |-> None]
    /\ spc = "idle"
    /\ saveSeen = NoneSaveSeen
    /\ saveCalls = <<>>
    /\ stored = NoCall

SaveInit ==
    /\ saveArgs \in [request : SeqsUpTo(ContentBytes, 1), retrievedlock : ConflictLocks,
                     xakey : {LASTSAVETIMEKEY}, targetname : {<<>>, FileCopy},
                     endpoint : {EndpointDefault}, userid : UserIds]
    /\ acctok \in [filename : {FileReport1}, appname : {AppCollabora}]
    /\ clock \in 0..MaxClock
    /\ smartCfg = None /\ expirationCfg = 0 /\ holderApp = None
    /\ smartSeen = NoneSmartSeen /\ forced = NotForced
    /\ msSentinel = FALSE
    /\ loSentinel = None
    /\ stLock = NoLock
    /\ stXattr \in {None, <<48>>}
    /\ stContent = <<120>>
    /\ spc = "start"
    /\ saveSeen = NoneSaveSeen
    /\ saveCalls = <<>>
    /\ stored = NoCall

saveRest ==
    <<saveArgs, msSentinel, loSentinel, stLock, codecVars, compareVars, nameVars, tokenVars,
      retrieveVars, smartVars, conflictVars, issueVars, recoveryVars, lockerVars>>

\* line 342: encodeLock(retrievedlock) is computed, then st.writefile is
\* called; it stores the content or raises IOError
SaveWriteFile ==
    /\ spc = "start"
    /\ LET lockid == encodeLock(saveArgs.retrievedlock) IN
       IF lockid.kind = "raise"
       THEN /\ stored' = lockid
            /\ spc' = "done"
            /\ UNCHANGED <<saveSeen, saveCalls, stContent>>
       ELSE \E answer \in {"ok", "ioerror"} :
               /\ saveCalls' = Append(saveCalls, writefileCall(saveArgs, acctok.filename, lockid.val))
               /\ saveSeen' = [saveSeen EXCEPT !.writefile = answer]
               /\ stContent' = IF answer = "ok" THEN saveArgs.request ELSE stContent
               /\ spc' = AfterWritefile(answer)
               /\ stored' = IF AfterWritefile(answer) = "done" THEN Raise("IOError") ELSE stored
    /\ UNCHANGED <<stXattr, saveRest>>

\* lines 343-344: int(time.time()) and encodeLock(retrievedlock) are
\* computed, then st.setxattr is called; it stores the value as text or
\* raises IOError.  Some time has gone by since the save began
SaveSetXattr ==
    /\ spc = "written"
    /\ \E answer \in {"ok", "ioerror"}, delay \in 0..TicksPerSec :
           LET lockid == encodeLock(saveArgs.retrievedlock)
               c == setxattrCall(saveArgs, acctok.filename, lockid.val, clock + delay)
           IN /\ saveCalls' = Append(saveCalls, c)
              /\ saveSeen' = [saveSeen EXCEPT !.setxattr = answer, !.clock = clock + delay]
              /\ stXattr' = IF answer = "ok" THEN DumpNat(c.value) ELSE stXattr
              /\ stored' = IF answer = "ok" THEN Ret(None) ELSE Raise("IOError")
              /\ spc' = "done"
    /\ UNCHANGED <<stContent, saveRest>>

SaveNext == SaveWriteFile \/ SaveSetXattr

-----------------------------------------------------------------------------
(* The race scenario: one request runs retrieveWopiLock while another takes
   the lock of the same file and writes the LibreOffice-compatible lock file
   with the signature.  The two requests take turns at storage calls only. *)

LockerIdle == lpc = "idle"

\* the lock the other request sets: lock 'x' of the same application
LockerLock == LockContent(encodeLock(<<120>>).val, AppCollabora)

RaceInit ==
    /\ detectCfg \in {None, StrTrue}
    /\ acctok \in [filename : {FileReport1, FileNotes}, appname : {AppCollabora}]
    /\ overridefn = None
    /\ msSentinel \in BOOLEAN
    /\ loSentinel \in LoContents \cup {None}
    /\ stLock \in {LockerLock, NoLock}
    /\ stXattr = None
    /\ stContent = <<>>
    /\ rpc = "start"
    /\ lolock = LoNone
    /\ seen = NoneSeen
    /\ calls = <<>>
    /\ retrieved = NoCallPair
    /\ lpc = "start"

lockerRest ==
    <<msSentinel, stXattr, stContent, codecVars, compareVars, nameVars, tokenVars, retrieveVars,
      smartVars, conflictVars, issueVars, recoveryVars, saveVars>>

\* the other request sets the lock in storage: refused when a lock is held
LockerSetLock ==
    /\ lpc \in {"start", "written"}
    /\ IF stLock = NoLock
       THEN /\ stLock' = LockerLock
            /\ lpc' = IF lpc = "start" THEN "locked" ELSE "done"
       ELSE /\ stLock' = stLock
            /\ lpc' = "done"
    /\ UNCHANGED <<loSentinel, lockerRest>>

\* the other request writes the lock file with the signature, before or
\* after it sets the lock
LockerWriteSentinel ==
    /\ lpc \in {"start", "locked"}
    /\ loSentinel' = LoOwn
    /\ lpc' = IF lpc = "start" THEN "written" ELSE "done"
    /\ UNCHANGED <<stLock, lockerRest>>

RaceNext ==
    \/ RetrieveEnter
    \/ StatMsLock
    \/ StatxLoLock
    \/ ReadLoLock
    \/ GetLock
    \/ RemoveLoLock
    \/ LockerSetLock
    \/ LockerWriteSentinel

-----------------------------------------------------------------------------
(* The specifications: one per component, the others at rest. *)

InitCodec ==
    CodecInit /\ CompareIdle /\ NameIdle /\ TokenIdle /\ StorageIdle /\ RetrieveIdle /\ SmartIdle /\ ConflictIdle /\ IssueIdle
    /\ RecoveryIdle /\ SaveIdle /\ LockerIdle

SpecCodec == InitCodec /\ [][CodecNext]_vars

InitCompare ==
    CompareInit /\ CodecIdle /\ NameIdle /\ TokenIdle /\ StorageIdle /\ RetrieveIdle /\ SmartIdle /\ ConflictIdle /\ IssueIdle
    /\ RecoveryIdle /\ SaveIdle /\ LockerIdle

SpecCompare == InitCompare /\ [][CompareNext]_vars

InitName ==
    NameInit /\ CodecIdle /\ CompareIdle /\ TokenIdle /\ StorageIdle /\ RetrieveIdle /\ SmartIdle /\ ConflictIdle /\ IssueIdle
    /\ RecoveryIdle /\ SaveIdle /\ LockerIdle

SpecName == InitName /\ [][NameNext]_vars

Init == RetrieveInit /\ CodecIdle /\ CompareIdle /\ NameIdle /\ SmartIdle /\ ConflictIdle /\ IssueIdle
    /\ RecoveryIdle /\ SaveIdle /\ LockerIdle

Next == RetrieveNext

Spec == Init /\ [][Next]_vars

InitSmart ==
    SmartInit /\ CodecIdle /\ CompareIdle /\ NameIdle /\ RetrieveIdle /\ ConflictIdle /\ IssueIdle
    /\ RecoveryIdle /\ SaveIdle /\ LockerIdle

SpecSmart == InitSmart /\ [][SmartNext]_vars

InitConflict ==
    /\ ConflictInit
    /\ CodecIdle /\ CompareIdle /\ NameIdle /\ TokenIdle /\ StorageIdle /\ RetrieveIdle /\ SmartIdle
    /\ IssueIdle /\ RecoveryIdle /\ SaveIdle /\ LockerIdle

SpecConflict == InitConflict /\ [][ConflictNext]_vars

InitIssue ==
    /\ IssueInit
    /\ CodecIdle /\ CompareIdle /\ NameIdle /\ TokenIdle /\ StorageIdle /\ RetrieveIdle /\ SmartIdle
    /\ ConflictIdle /\ RecoveryIdle /\ SaveIdle /\ LockerIdle

SpecIssue == InitIssue /\ [][IssueNext]_vars

InitRecovery ==
    /\ RecoveryInit
    /\ CodecIdle /\ CompareIdle /\ NameIdle /\ TokenIdle /\ StorageIdle /\ RetrieveIdle /\ SmartIdle
    /\ ConflictIdle /\ IssueIdle /\ SaveIdle /\ LockerIdle

SpecRecovery == InitRecovery /\ [][RecoveryNext]_vars

InitSave ==
    /\ SaveInit
    /\ CodecIdle /\ CompareIdle /\ NameIdle /\ RetrieveIdle /\ ConflictIdle /\ IssueIdle
    /\ RecoveryIdle /\ LockerIdle

SpecSave == InitSave /\ [][SaveNext]_vars

InitRace ==
    /\ RaceInit
    /\ CodecIdle /\ CompareIdle /\ NameIdle /\ SmartIdle /\ ConflictIdle /\ IssueIdle
    /\ RecoveryIdle /\ SaveIdle

SpecRace == InitRace /\ [][RaceNext]_vars

-----------------------------------------------------------------------------
(* C1: for every lock string that is not empty, _decodeLock(encodeLock(s))  *)
(* returns exactly s; encodeLock of no lock (None or the empty string)       *)
(* returns None, no payload.                                                 *)
C1_RoundTrip ==
    /\ (cpc = "roundtrip" /\ Truthy(lock)) =>
           /\ enclock.kind = "return"
           /\ storedlock = enclock.val
           /\ declock = Ret(lock)
    /\ (cpc \in {"encoded", "roundtrip"} /\ ~Truthy(lock)) => enclock = Ret(None)

\* a lock of several characters of different encoded widths came back
C1_Witness ==
    /\ cpc = "roundtrip"
    /\ Len(lock) = MaxLockLen
    /\ lock[1] = 97 /\ lock[2] > 255
    /\ declock = Ret(lock)

\* the value after the marker and the space is the base64 text of the bytes
\* of some string: it decodes, it is the encoding of what it decodes to, and
\* those bytes are a string
ProtocolPayload(s) ==
    /\ s # None
    /\ StartsWith(s, WEBDAV_LOCK_PREFIX \o Space)
    /\ LET text == SliceFrom(s, Len(WEBDAV_LOCK_PREFIX) + 1)
           bin == b64decode(text)
       IN /\ bin.kind = "return"
          /\ b64encode(bin.val) = text
          /\ UTF8Decode(bin.val).kind = "return"

(* C2: _decodeLock fails with IOError, and with no other error, on every    *)
(* stored payload that lacks the marker followed by a space, or whose part   *)
(* after the marker is not valid base64 of a decodable string; it never      *)
(* returns a lock for such a payload.                                        *)
C2_RejectsForeignPayload ==
    (cpc = "decoded" /\ ~ProtocolPayload(storedlock)) => declock = Raise("IOError")

StrictSet == Upper(ConfigGet(cfgStrictcheck, StrFalse)) = StrTRUE

WasCompared == compared # NotCompared

(* C3: compareWopiLocks returns True for two identical locks whatever the   *)
(* strict-check setting; with the strict check enabled it returns False for  *)
(* every two locks that differ, and json.loads is not called.                *)
C3_IdenticalAndStrict ==
    WasCompared =>
        /\ inLock1 = inLock2 => compared.val = "True"
        /\ (StrictSet /\ inLock1 # inLock2) => compared = Compared("False", FALSE)

\* strict mode refused two locks that the fallback would have accepted
C3_Witness ==
    /\ WasCompared
    /\ StrictSet
    /\ inLock1 # inLock2
    /\ compareWopiLocks(inLock1, inLock2, StrFalse).val = "True"
    /\ compared.val = "False"

\* the lock parses as a JSON dictionary that has the key S
IsMappingWithS(l) ==
    /\ json_loads(l).kind = "return"
    /\ json_loads(l).val.ty = "dict"
    /\ KeyS \in DictKeys(json_loads(l).val)

ValueOfS(l) == DictGet(json_loads(l).val, KeyS)

\* '{"S":"x"}'
LockSx == <<123, 34, 83, 34, 58, 34, 120, 34, 125>>

\* '{"S":"y"}'
LockSy == <<123, 34, 83, 34, 58, 34, 121, 34, 125>>

\* 'x'
LockX == <<120>>

IsNonMapping(l) == json_loads(l).kind = "return" /\ json_loads(l).val.ty # "dict"

\* none of the two fallbacks of C4 applies
NoFallbackApplies ==
    \/ json_loads(inLock1).kind = "raise"
    \/ json_loads(inLock1).kind = "return" /\ json_loads(inLock1).val.ty = "dict"
           /\ ~IsMappingWithS(inLock1)
    \/ IsNonMapping(inLock1)
    \/ IsNonMapping(inLock2)
    \/ inLock2 = None

(* C5: for two locks that differ, without the strict check, compareWopiLocks *)
(* returns the boolean False (never nothing) whenever no JSON fallback       *)
(* applies: lock1 is no JSON, lock1 is a dictionary without the key S        *)
(* (whether or not lock2 parses), lock1 or lock2 is a JSON value that is no  *)
(* dictionary, or lock2 is None.                                             *)
C5_FalseWithoutFallback ==
    (WasCompared /\ ~StrictSet /\ inLock1 # inLock2 /\ NoFallbackApplies) =>
        compared.val = "False"

\* a path with every run of slashes made one slash
RECURSIVE CollapseSlashes(_)
CollapseSlashes(path) ==
    IF Len(path) < 2 THEN path
    ELSE IF <<path[1]>> = Sep /\ <<path[2]>> = Sep THEN CollapseSlashes(Tail(path))
    ELSE <<path[1]>> \o CollapseSlashes(Tail(path))

\* the name the rule of C6 gives the sentinel of a file
SentinelNameByRule(filename) ==
    LET base == basename(filename)
        L == Len(base)
        ext == splitext1(filename)
    IN IF ext # ExtDocx \/ L - Len(ext) <= 6 THEN MsLockMark \o base
       ELSE IF L = 12 THEN MsLockMark \o Tail(base)
       ELSE MsLockMark \o Tail(Tail(base))

(* C6: getMicrosoftOfficeLockName puts the sentinel in the file's own        *)
(* directory and names it by the rule on the base name of length L: '~$' and *)
(* the base name if the extension is not exactly '.docx' or the name without *)
(* extension has at most 6 characters (L <= 11), '~$' and the base name      *)
(* without its first character if L = 12, without its first 2 characters if  *)
(* L >= 13.  report.docx gives ~$report.docx, report1.docx ~$eport1.docx,    *)
(* longreport.docx ~$ngreport.docx.                                          *)
C6_MsLockName ==
    msLockName # None =>
        /\ basename(msLockName) = SentinelNameByRule(msFilename)
        /\ CollapseSlashes(dirname(msLockName)) = CollapseSlashes(dirname(msFilename))
        /\ splitext1(msFilename) = ExtDocx =>
               (Len(basename(msFilename)) - Len(ExtDocx) <= 6
                    <=> Len(basename(msFilename)) <= 11)
        /\ msFilename = FileReport => basename(msLockName) = <<126, 36, 114, 101, 112, 111, 114, 116, 46, 100, 111, 99, 120>>
        /\ msFilename = FileReport1 => basename(msLockName) = <<126, 36, 101, 112, 111, 114, 116, 49, 46, 100, 111, 99, 120>>
        /\ msFilename = FileLongReport => basename(msLockName) = <<126, 36, 110, 103, 114, 101, 112, 111, 114, 116, 46, 100, 111, 99, 120>>

\* a .docx name of 12 characters lost its first character
C6_Witness ==
    /\ msLockName # None
    /\ splitext1(msFilename) = ExtDocx
    /\ Len(basename(msFilename)) = 12
    /\ basename(msLockName) = MsLockMark \o Tail(basename(msFilename))

-----------------------------------------------------------------------------
(* retrieveWopiLock: what a finished or running call has seen *)

Done == rpc = "done"

\* the storage operations called so far, in order
Ops == [i \in 1..Len(calls) |-> calls[i].op]

Called(op) == \E i \in 1..Len(calls) : calls[i].op = op

\* the place of an operation in the fixed order
Rank(op) ==
    CASE op = "stat" -> 1
      [] op = "statx" -> 2
      [] op = "readfile" -> 3
      [] op = "getlock" -> 4
      [] op = "removefile" -> 5

\* the Microsoft Office sentinel was found
MsHit == seen.stat = "found"

\* the LibreOffice sentinel was read, is text and lacks the signature
LoHit == seen.readfile = "chunk" /\ lolock.is = "str" /\ ~Contains(lolock.val, Signature)

\* the LibreOffice sentinel was read and is no text
LoUndecodable == seen.readfile = "chunk" /\ lolock.is = "bytes"

C7_WitnessLibreOffice ==
    /\ Done
    /\ ~MsHit /\ LoHit /\ stLock # NoLock
    /\ retrieved = RetPair(External, HolderLibreOffice)

\* what the call returns once both sentinels are passed: the outcome of
\* lines 222-252 for what getlock answered
LockResult ==
    CASE seen.getlock = "ioerror" -> RetPair(External, HolderAnother)
      [] seen.getlock = "nolock" -> RetPair(None, None)
      [] seen.getlock = "lock" -> afterGetlock(stLock)
      [] OTHER -> NoCallPair

MsFailed == seen.stat = "ioerror"

MsAbsent == seen.stat = "notfound"

LoFailed ==
    \/ seen.statx = "ioerror"
    \/ seen.readfile \in {"errorobject", "empty", "ioerror"}

LoAbsent == seen.statx = "notfound"

(* C8: an I/O failure of a sentinel probe of retrieveWopiLock (the stat of   *)
(* the Microsoft Office sentinel, the statx of the LibreOffice sentinel, the *)
(* reading of it, an error object or no item read) counts as that sentinel   *)
(* being absent: no IOError or StopIteration leaves the call, the probes     *)
(* that remain are made, and the call returns what it returns when the       *)
(* sentinel is not there.                                                    *)
C8_ProbeFailureIsAbsence ==
    /\ retrieved.exc \notin {"IOError", "StopIteration"}
    /\ (MsFailed \/ MsAbsent) => (rpc = "statx" \/ Called("statx"))
    /\ (LoFailed \/ LoAbsent) => (rpc = "getlock" \/ Called("getlock"))
    /\ (Done /\ (MsFailed \/ MsAbsent) /\ LoHit) =>
           retrieved = RetPair(External, HolderLibreOffice)
    /\ (Done /\ (MsFailed \/ MsAbsent) /\ (LoFailed \/ LoAbsent)) =>
           retrieved = LockResult

\* both sentinels are there, the stat of the first failed and the reading of
\* the second yielded an error object: the lock held was returned
C8_Witness ==
    /\ Done
    /\ msSentinel /\ MsFailed
    /\ loSentinel = LoForeign /\ seen.readfile = "errorobject"
    /\ seen.getlock = "lock"
    /\ retrieved = RetPair(<<120>>, AppCollabora)

(* C9: when no foreign sentinel is detected and getlock fails or the lock    *)
(* held has a payload that is not in the protocol's format, retrieveWopiLock *)
(* returns ('External', 'Another app or user') and raises nothing; it        *)
(* returns the decoded lock and the holder's app for a protocol payload      *)
(* only, and (None, None) only when getlock reports no lock.                 *)
C9_ExternalWhenUnreadable ==
    (Done /\ Called("getlock")) =>
        /\ retrieved.kind = "return"
        /\ (seen.getlock = "ioerror" \/ (seen.getlock = "lock" /\ ~ProtocolPayload(stLock.lock_id))) =>
               retrieved = RetPair(External, HolderAnother)
        /\ (seen.getlock = "lock" /\ ProtocolPayload(stLock.lock_id)) =>
               /\ encodeLock(retrieved.val[1]) = Ret(stLock.lock_id)
               /\ retrieved.val[2] = stLock.app_name
        /\ retrieved = RetPair(None, None) => seen.getlock = "nolock"

-----------------------------------------------------------------------------
(* forceSmartUnlock *)

SmartEnabled == Upper(ConfigGet(smartCfg, StrFalse)) # StrFALSE

\* the attribute is there and is a number in decimal digits
NumericSaveTime ==
    /\ Truthy(stXattr)
    /\ \A i \in 1..Len(stXattr) : stXattr[i] \in 48..57

(* C10: forceSmartUnlock returns true only when smart unlock is enabled, the *)
(* lock holder's app is the token's app, the last save time was read and is *)
(* a number, and that time is before now less the lock expiration; it        *)
(* returns false when the holder's app is another one, when the attribute is *)
(* absent or no number, and when reading it fails; it raises nothing.        *)
C10_SmartUnlockPolicy ==
    forced # NotForced =>
        /\ forced.kind = "return"
        /\ forced = RetBool(TRUE) =>
               /\ SmartEnabled
               /\ holderApp = acctok.appname
               /\ smartSeen.getxattr = "value"
               /\ NumericSaveTime
               /\ ScanDigits(stXattr, 1, 0).val * TicksPerSec
                      < smartSeen.clock - expirationCfg * TicksPerSec
        /\ holderApp # acctok.appname => forced = RetBool(FALSE)
        /\ (smartSeen.getxattr = "value" /\ ~NumericSaveTime) => forced = RetBool(FALSE)
        /\ smartSeen.getxattr = "ioerror" => forced = RetBool(FALSE)

(* C11: forceSmartUnlock changes nothing in the storage: on every path, the *)
(* one that returns true too, the lock held, the sentinels, the content of  *)
(* the file and its attributes are as before, and the only storage call is  *)
(* one read of the last save time of the token's file.                      *)
C11_NoStorageMutation ==
    /\ [][storageVars' = storageVars]_vars
    /\ [](smartSeen.calls \in {<<>>, <<Call("getxattr", acctok.filename)>>})

\* the call returned true and had read the attribute
C11_Witness ==
    /\ forced = RetBool(TRUE)
    /\ smartSeen.calls = <<Call("getxattr", acctok.filename)>>
    /\ stLock # NoLock

-----------------------------------------------------------------------------
(* makeConflictResponse *)

\* the values of the header name in the response, in the order set
HeaderValues(resp, name) ==
    LET at(i) == resp.headers[i] IN
    {at(i).v : i \in {j \in 1..Len(resp.headers) : at(j).k = name}}

\* the body of the response read as JSON
BodyJson(resp) ==
    LET text == UTF8Decode(resp.data) IN
    IF text.kind = "return" THEN json_loads(text.val) ELSE JRaise("UnicodeDecodeError")

(* C12: makeConflictResponse always gives a response of status 409 with the *)
(* X-WOPI-Lock header set: to the retrieved lock when there is one, to the  *)
(* empty string when there is none, whatever the operation, the locks and   *)
(* the reason.                                                              *)
C12_ConflictStatusAndLock ==
    conflictResp # NoResp =>
        /\ conflictResp.kind = "return"
        /\ conflictResp.val.status = 409
        /\ HeaderValues(conflictResp.val, HeaderLock) =
               {JStr(IF conflictArgs.retrievedlock = None THEN <<>>
                     ELSE conflictArgs.retrievedlock)}

\* a response for no retrieved lock and a structured reason
C12_Witness ==
    /\ conflictResp.kind = "return"
    /\ conflictArgs.retrievedlock = None
    /\ conflictArgs.reason.ty = "dict"
    /\ HeaderValues(conflictResp.val, HeaderLock) = {JStr(<<>>)}

\* a response for a retrieved lock and no reason
C12_WitnessLock ==
    /\ conflictResp.kind = "return"
    /\ conflictArgs.retrievedlock = <<233>>
    /\ conflictArgs.reason = JNull
    /\ HeaderValues(conflictResp.val, HeaderLock) = {JStr(<<233>>)}

(* C13: every conflict response has the X-WOPI-LockFailureReason header and *)
(* a JSON body with a message: a plain string s gives the body {message: s} *)
(* and the header s, a structured reason is the body as it is and its       *)
(* message the header; so for every reason (none, a plain string, a         *)
(* structured one with or without more keys), and the call never fails.     *)
C13_ReasonHeaderAndBody ==
    conflictResp # NoResp =>
        /\ conflictResp.kind = "return"
        /\ Cardinality(HeaderValues(conflictResp.val, HeaderReason)) = 1
        /\ BodyJson(conflictResp.val).kind = "return"
        /\ BodyJson(conflictResp.val).val.ty = "dict"
        /\ KeyMessage \in DictKeys(BodyJson(conflictResp.val).val)
        /\ conflictArgs.reason.ty = "str" =>
               /\ PyEq(BodyJson(conflictResp.val).val,
                       JDict(<<[k |-> KeyMessage, v |-> conflictArgs.reason]>>))
               /\ HeaderValues(conflictResp.val, HeaderReason) = {conflictArgs.reason}
        /\ conflictArgs.reason.ty = "dict" =>
               /\ PyEq(BodyJson(conflictResp.val).val, conflictArgs.reason)
               /\ HeaderValues(conflictResp.val, HeaderReason) =
                      {DictGet(conflictArgs.reason, KeyMessage)}

-----------------------------------------------------------------------------
(* generateAccessToken *)

\* the app gave its edit URL
UrlsSupplied == Truthy(tokArgs.app[2])

\* the app endpoints have both URLs for the extension of the file, in lower case
UrlsResolvable ==
    \E e \in tokEnv.endpoints :
        /\ e.ext = Lower(splitext1(tokEnv.file.filepath))
        /\ e.edit # Missing
        /\ e.view # Missing

\* what the storage said when the stat failed
StatMessage == IF tokSeen = "notfound" THEN MsgNoSuchFile ELSE MsgIoError

(* C14: generateAccessToken gives a token only when the stat of the file    *)
(* succeeded and the editor URLs are supplied or found in the mapping of    *)
(* file extensions: when the stat fails its error is passed on as it is and *)
(* no token is returned; when no edit URL is supplied and the extension has *)
(* no entry, the call ends with an error and no token is returned.          *)
C14_TokenOnlyForKnownFile ==
    issued # NotIssued =>
        /\ issued.kind = "return" =>
               /\ tokSeen = "found"
               /\ UrlsSupplied \/ UrlsResolvable
               /\ issued.token # NoToken
        /\ tokSeen # "found" => issued = IssueFails("IOError", StatMessage)
        /\ (tokSeen = "found" /\ ~UrlsSupplied /\ ~UrlsResolvable) =>
               /\ issued.kind = "raise"
               /\ issued.token = NoToken
               /\ issued.inode = None

\* a token for '/A.DOCX' with the URLs of '.docx' taken from the mapping
C14_Witness ==
    /\ issued.kind = "return"
    /\ ~UrlsSupplied
    /\ tokEnv.file.filepath = <<47, 65, 46, 68, 79, 67, 88>>
    /\ issued.token # NoToken

\* the file is there and no URL is supplied nor registered: no token
C14_WitnessNotRegistered ==
    /\ issued.kind = "raise"
    /\ tokSeen = "found"
    /\ ~UrlsSupplied
    /\ tokEnv.endpoints = {}

\* the token decoded at the second it was issued
DecodedNow == jwt_decode(issued.token, WopiSecret, tokEnv.clock \div TicksPerSec)

ClaimOf(key) == DictGet(DecodedNow.val, key)

KeyUserid == <<117, 115, 101, 114, 105, 100>>

KeyFilename == <<102, 105, 108, 101, 110, 97, 109, 101>>

\* the exp claim is the second of issuing plus the validity, and is later
\* than the time of issuing
ExpiresAfterValidity ==
    /\ ClaimOf(KeyExp) = JNum((tokEnv.clock \div TicksPerSec) + tokEnv.tokenvalidity)
    /\ ClaimOf(KeyExp).n * TicksPerSec > tokEnv.clock

(* C15, as stated: a token issued and decoded at once gives back the fileId *)
(* and the userId passed to the issuing and an exp of the time of issuing   *)
(* plus the validity, later than the time of issuing; the identity returned *)
(* is the inode the stat reported.                                          *)
C15_DecodesToFileId ==
    issued.kind = "return" =>
        /\ DecodedNow.kind = "return"
        /\ ClaimOf(KeyFilename) = JStr(tokArgs.fileid)
        /\ ClaimOf(KeyUserid) = JStr(tokArgs.userid)
        /\ ExpiresAfterValidity
        /\ issued.inode = tokEnv.file.inode

(* C15, amended: a token issued and decoded at once gives back the userId   *)
(* passed to the issuing, as filename the path the stat of the fileId       *)
(* reported, and an exp of the second of issuing plus the validity, later   *)
(* than the time of issuing; the identity returned is the inode the stat    *)
(* reported.                                                                *)
C15_DecodesToStatPath ==
    issued.kind = "return" =>
        /\ DecodedNow.kind = "return"
        /\ ClaimOf(KeyFilename) = JStr(tokEnv.file.filepath)
        /\ ClaimOf(KeyUserid) = JStr(tokArgs.userid)
        /\ ExpiresAfterValidity
        /\ issued.inode = tokEnv.file.inode

\* a token for a file named by an id, that the storage reports under a path
C15_Witness ==
    /\ issued.kind = "return"
    /\ tokArgs.fileid = <<100, 111, 99, 49, 50, 51>>
    /\ tokEnv.clock % TicksPerSec # 0
    /\ DecodedNow.kind = "return"
    /\ ClaimOf(KeyFilename) = JStr(tokEnv.file.filepath)

-----------------------------------------------------------------------------
(* Recovery of a failed save *)

RecoveryCalled == recovered.kind # "nocall"

\* the local copy is complete: a file is there and holds all the content
CompleteCopy == recFile.path # None /\ recFile.data = recArgs.content

\* the local write failed or wrote another number of bytes
LocalWriteFailed == recSeen # "ok"

\* C16: storeForRecovery never raises past its own boundary: for every
\* content, user name, file name, token reference and original error, and
\* every failure of the local write (directory missing, open or write error,
\* short write), it returns normally after logging.
C16_NeverRaises ==
    RecoveryCalled => recovered.kind = "return" /\ Len(recovered.logs) > 0

\* C17: each call of storeForRecovery makes exactly one local write attempt
\* and exactly one log entry: an error entry when all bytes of the content
\* were written, a critical entry if and only if the local write failed or
\* wrote another number of bytes; so a call never ends without a complete
\* local copy or a critical entry.
C17_OneWriteOneLog ==
    RecoveryCalled =>
        /\ recovered.opens = 1
        /\ Len(recovered.logs) = 1
        /\ (recovered.logs = <<"critical">>) <=> LocalWriteFailed
        /\ recovered.logs = <<"error">> => CompleteCopy
        /\ CompleteCopy \/ recovered.logs = <<"critical">>

-----------------------------------------------------------------------------
(* A save *)

SaveDone == spc = "done"

\* the calls of the save agree on the file, the user and the lock
SameTarget(c, d) ==
    /\ c.endpoint = d.endpoint /\ c.path = d.path /\ c.userid = d.userid
    /\ c.lockid = d.lockid

\* every setxattr of the save comes second, after a writefile that
\* returned, on the same target with the same encoded lock
SetxattrFollowsWritefile ==
    \A i \in 1..Len(saveCalls) :
        saveCalls[i].op = "setxattr" =>
            /\ i = 2
            /\ saveCalls[1].op = "writefile"
            /\ saveSeen.writefile = "ok"
            /\ SameTarget(saveCalls[1], saveCalls[i])
            /\ saveCalls[i].lockid = encodeLock(saveArgs.retrievedlock).val
            /\ saveCalls[i].path = TargetName(saveArgs.targetname, acctok.filename)
            /\ saveCalls[i].key = saveArgs.xakey

\* a failed writefile ends the save with its exception and no setxattr
WritefileFailurePropagates ==
    saveSeen.writefile = "ioerror" =>
        /\ stored = Raise("IOError")
        /\ SaveDone
        /\ \A i \in 1..Len(saveCalls) : saveCalls[i].op # "setxattr"

\* C18: within one save the write of the last-save time follows the write of
\* the content: setxattr is issued only after writefile returned, on the same
\* target and with the same encoded lock; if writefile fails, no time is
\* written and the failure reaches the caller, so the stored time never
\* refers to a content write that did not happen.
C18_TimestampAfterContent ==
    /\ [](SetxattrFollowsWritefile /\ WritefileFailurePropagates)
    /\ [][stXattr' # stXattr =>
             /\ saveSeen.writefile = "ok"
             /\ stContent = saveArgs.request
             /\ stContent' = stContent]_vars

\* a save into the target name given, done: both calls made, the time stored
C18_Witness ==
    /\ SaveDone /\ stored = Ret(None)
    /\ Len(saveCalls) = 2 /\ saveCalls[2].op = "setxattr"
    /\ saveCalls[2].path = FileCopy
    /\ saveCalls[2].lockid # None
    /\ stXattr = DumpNat(saveSeen.clock \div TicksPerSec)

\* a save whose writefile failed
C18_WitnessFailure ==
    /\ SaveDone /\ stored = Raise("IOError")
    /\ saveSeen.writefile = "ioerror"
    /\ Len(saveCalls) = 1

-----------------------------------------------------------------------------
(* The one deletion of retrieveWopiLock *)

\* the LibreOffice lock file was read in this call and holds the signature
LoOwnRead == seen.readfile = "chunk" /\ lolock.is = "str" /\ Contains(lolock.val, Signature)

\* C19: retrieveWopiLock calls removefile only on the LibreOffice lock file,
\* only when that file was read successfully in the same call and holds the
\* 'WOPIServer' signature, and only after getlock reported no lock; a lock
\* file reported as a foreign lock is never deleted, nothing is deleted when
\* a lock is found or getlock fails, and a failed deletion still gives
\* (None, None).
C19_DeletesOwnSentinelOnly ==
    /\ \A i \in 1..Len(calls) :
           calls[i].op = "removefile" =>
               /\ calls[i].path = getLibreOfficeLockName(acctok.filename)
               /\ LoOwnRead
               /\ seen.getlock = "nolock"
               /\ \E j \in 1..(i - 1) : calls[j].op = "getlock"
    /\ (MsHit \/ LoHit) => ~Called("removefile")
    /\ seen.getlock \in {"lock", "ioerror"} => ~Called("removefile")
    /\ (Done /\ seen.removefile = "ioerror") => retrieved = RetPair(None, None)

-----------------------------------------------------------------------------
(* Retrieval against a concurrent lock *)

\* the removefile of retrieveWopiLock deletes the lock file in this step
RemovalTakesEffect == rpc = "removefile" /\ loSentinel # None /\ loSentinel' = None

\* C20: with another request that takes the lock and writes its lock file
\* with the signature, interleaved at storage calls, retrieveWopiLock never
\* deletes the lock file of a lock that is held at the moment of deletion:
\* whenever its removefile takes effect, storage holds no lock on the file.
C20_NoDeletionUnderHeldLock ==
    [][RemovalTakesEffect => stLock = NoLock]_vars

=============================================================================
